---------------------------- MODULE Spec2Model ----------------------------
(***************************************************************************)
(* The logfunc-to-logger rewrite of refactoring_tools:                     *)
(* ReplaceFuncWithLoggerCommand (wsf_refactoring_tools/codemods/           *)
(* remove_logfunc.py) as a state machine driven by libcst's depth-first    *)
(* traversal.  One action per visit/leave handler of the command; the      *)
(* syntax tree is produced node by node as the traversal reaches it.       *)
(* After the traversal come the transforms CodemodBase.transform_module    *)
(* (src/codemods/codemod_base.py) runs on the module's top-level           *)
(* statements: libcst's AddImportsVisitor and AddGlobalStatements          *)
(* (src/codemods/add_global_statements.py).                                *)
(*                                                                         *)
(* Python strings are sequences of one-character strings; fixed texts the  *)
(* code builds ("Error in function: ", a function name) are single pieces. *)
(***************************************************************************)
EXTENDS Integers, Sequences, FiniteSets, TLC

VARIABLES
    pc,                    \* "start" | "running" | "aborted" | "hung" | "done" |
                           \* "imported" | "returned"; "removing" | "removed" while
                           \* and after RemoveLogfuncDefAndImports alone runs
    open,                  \* the nodes the traversal is inside of, outermost first
    logger_name,           \* self._logger_name
    logfuncs,              \* self._logfuncs (context.scratch[CONTEXT_KEY])
    function_context,      \* self._function_context
    handled_exceptions,    \* self._handled_exceptions
    excs_in_logfunc_call,  \* self._excs_in_logfunc_call
    string_varnames,       \* self._string_varnames: name -> scope -> Assign | None
    postprocess,           \* self._postprocess
    needed_imports,        \* AddImportsVisitor's scheduled imports in context.scratch
    global_statements,     \* context.scratch[AddGlobalStatements.CONTEXT_KEY]
    last,                  \* what the handler that ran last returned, warned and raised
    body,                  \* the module's top-level statements, as the transforms hand it on
    run,                   \* invocations of the command on the module so far, the
                           \* current one included
    split_at_last_import,  \* which AddImportsVisitor._split_module the installed libcst has
    tree,                  \* the tree RemoveLogfuncDefAndImports.transform_module was given
    cursor,                \* the top-level statement its traversal leaves next
    stack                  \* an ExceptionStack (utils/exception_stack.py) and its use

\* What the handlers of ReplaceFuncWithLoggerCommand never write.
module_vars == <<body, run, split_at_last_import, tree, cursor, stack>>

vars == <<pc, open, logger_name, logfuncs, function_context, handled_exceptions,
          excs_in_logfunc_call, string_varnames, postprocess, needed_imports,
          global_statements, last, body, run, split_at_last_import, tree,
          cursor, stack>>

----------------------------------------------------------------------------
(* Bounds of the exploration.                                              *)

\* Spec: function definitions and except handlers open at once, and argument
\* nodes of one statement-level call.
MaxDepth == 3
MaxCallNodes == 3
\* SpecClassify: argument nodes of one statement-level call, and recorded
\* string assignments.
MaxArgs == 4
MaxAssigns == 1
\* SpecConvert: arguments of one .format() call.
MaxFormatArgs == 2
\* SpecChain: top-level statements of the input module, statements other
\* transforms schedule through the shared context, and invocations.
MaxBody == 3
MaxScheduled == 2
MaxRuns == 2
\* SpecRemove: aliases of one import statement.
MaxAliases == 3
\* SpecStack: tasks handed to one ExceptionStack, and exceptions it holds.
MaxTasks == 3

----------------------------------------------------------------------------
(* Python strings.                                                         *)

INFO == <<"I", "N", "F", "O">>
ERROR == <<"E", "R", "R", "O", "R">>

\* LOGLEVELS = ["DEBUG", "INFO", "WARNING", "WARN", "ERROR", "CRITICAL", "FATAL"]
LOGLEVELS ==
    { <<"D", "E", "B", "U", "G">>, INFO,
      <<"W", "A", "R", "N", "I", "N", "G">>, <<"W", "A", "R", "N">>, ERROR,
      <<"C", "R", "I", "T", "I", "C", "A", "L">>, <<"F", "A", "T", "A", "L">> }

UpperCase == <<"A", "B", "C", "D", "E", "F", "G", "H", "I", "J", "K", "L", "M",
               "N", "O", "P", "Q", "R", "S", "T", "U", "V", "W", "X", "Y", "Z">>
LowerCase == <<"a", "b", "c", "d", "e", "f", "g", "h", "i", "j", "k", "l", "m",
               "n", "o", "p", "q", "r", "s", "t", "u", "v", "w", "x", "y", "z">>

LowerChar(c) ==
    IF \E i \in 1..Len(UpperCase) : UpperCase[i] = c
    THEN LowerCase[CHOOSE i \in 1..Len(UpperCase) : UpperCase[i] = c]
    ELSE c

\* str.lower()
Lower(s) == [i \in 1..Len(s) |-> LowerChar(s[i])]

\* str.replace("{}", "%s"): leftmost, non-overlapping occurrences.
RECURSIVE ReplaceBraces(_)
ReplaceBraces(s) ==
    IF s = <<>> THEN <<>>
    ELSE IF Len(s) >= 2 /\ s[1] = "{" /\ s[2] = "}"
         THEN <<"%", "s">> \o ReplaceBraces(SubSeq(s, 3, Len(s)))
         ELSE <<s[1]>> \o ReplaceBraces(Tail(s))

\* The characters of a printf-style conversion specifier.
FormatFlags == {"-", "+", " ", "#", "0"}
FormatDigits == {"0", "1", "2", "3", "4", "5", "6", "7", "8", "9"}
FormatLength == {"h", "l", "L"}
StringConversions == {"s", "r", "a"}
NumberConversions == {"d", "i", "u", "o", "x", "X", "e", "E", "f", "F", "g", "G", "c"}

RECURSIVE SkipWhile(_, _, _)
SkipWhile(s, i, chars) ==
    IF i <= Len(s) /\ s[i] \in chars THEN SkipWhile(s, i + 1, chars) ELSE i

\* A "*" width or precision of the specifier whose "%" is at i: it takes an
\* int from the arguments, and the trial substitution passes only strings.
StarWidthOrPrecision(s, i) ==
    LET afterFlags == SkipWhile(s, i + 1, FormatFlags)
        afterWidth == SkipWhile(s, afterFlags, FormatDigits)
    IN  \/ afterFlags <= Len(s) /\ s[afterFlags] = "*"
        \/ /\ afterWidth < Len(s)
           /\ s[afterWidth] = "."
           /\ s[afterWidth + 1] = "*"

\* Index of the conversion character of the specifier whose "%" is at i, with
\* flags, width, precision and length modifier skipped; Len(s) + 1 when the
\* string ends first.
ConversionIndex(s, i) ==
    LET afterFlags == SkipWhile(s, i + 1, FormatFlags)
        afterWidth == SkipWhile(s, afterFlags, FormatDigits)
        afterPrec ==
            IF afterWidth <= Len(s) /\ s[afterWidth] = "."
            THEN SkipWhile(s, afterWidth + 1, FormatDigits)
            ELSE afterWidth
    IN  IF afterPrec <= Len(s) /\ s[afterPrec] \in FormatLength
        THEN afterPrec + 1
        ELSE afterPrec

\* `fmt % args` for a tuple of `nargs` strings: "ok", or the exception raised.
RECURSIVE PercentFormatFrom(_, _, _)
PercentFormatFrom(s, i, nargs) ==
    IF i > Len(s)
    THEN IF nargs > 0 THEN "TypeError" ELSE "ok"    \* not all arguments converted
    ELSE IF s[i] # "%" THEN PercentFormatFrom(s, i + 1, nargs)
    ELSE IF i < Len(s) /\ s[i + 1] = "%" THEN PercentFormatFrom(s, i + 2, nargs)
    ELSE LET c == ConversionIndex(s, i) IN
         IF i < Len(s) /\ s[i + 1] = "(" THEN "TypeError"    \* format requires a mapping
         ELSE IF StarWidthOrPrecision(s, i) THEN "TypeError"  \* "* wants int"
         ELSE IF c > Len(s) THEN "ValueError"        \* incomplete format
         ELSE IF nargs = 0 THEN "TypeError"          \* not enough arguments
         ELSE IF s[c] \in StringConversions THEN PercentFormatFrom(s, c + 1, nargs - 1)
         ELSE IF s[c] \in NumberConversions THEN "TypeError"
         ELSE "ValueError"                           \* unsupported format character

PercentFormat(s, nargs) == PercentFormatFrom(s, 1, nargs)

----------------------------------------------------------------------------
(* Syntax-tree nodes.  Every node is a record of the same shape:           *)
(*   Str         a SimpleString: its quote and its evaluated text (lit)    *)
(*   Name        a bare name                                               *)
(*   Format      <base>.format(args); base "Str" (quote, lit) or "Name"    *)
(*   Call        name(args), the callee a bare name                        *)
(*   AttrCall    <obj>.name(args), not a .format call                      *)
(*   FunctionDef name, and the qualified name libcst resolves for it       *)
(*   ExceptHandler  name is the `as` name, "" without one                  *)
(*   Assign      name = <Str>                                              *)

Node(kind, name, base, quote, lit, args, qualname) ==
    [kind |-> kind, name |-> name, base |-> base, quote |-> quote,
     lit |-> lit, args |-> args, qualname |-> qualname]

NoNode == Node("None", "", "", "", <<>>, <<>>, <<>>)
StrNode(quote, text) == Node("Str", "", "", quote, text, <<>>, <<>>)
NameNode(name) == Node("Name", name, "", "", <<>>, <<>>, <<>>)
AssignNode(target, quote, text) == Node("Assign", target, "", quote, text, <<>>, <<>>)

DoubleQuote == "\""
SingleQuote == "'"

\* ast.literal_eval of a SimpleString's source text: the text between the quotes.
literal_eval(node) == node.lit

\* repr(str) as the source text of a SimpleString: single quotes, unless the
\* text holds a single quote and no double quote.
repr(text) ==
    IF (\E i \in DOMAIN text : text[i] = SingleQuote)
       /\ ~(\E i \in DOMAIN text : text[i] = DoubleQuote)
    THEN StrNode(DoubleQuote, text)
    ELSE StrNode(SingleQuote, text)

\* The characters of the identifiers the explored modules use.
Chars(name) ==
    CASE name = "file" -> <<"f", "i", "l", "e">>
      [] name = "File" -> <<"F", "i", "l", "e">>
      [] name = "msg" -> <<"m", "s", "g">>
      [] name = "e" -> <<"e">>
      [] OTHER -> <<name>>

IsCallLike(node) == node.kind \in {"Call", "Format", "AttrCall"}
IsStructural(node) == node.kind \in {"FunctionDef", "ExceptHandler"}

RECURSIVE SumSizes(_)
RECURSIVE Size(_)
\* Nodes of the argument subtree rooted at `node`.
Size(node) == 1 + SumSizes(node.args)
SumSizes(nodes) == IF nodes = <<>> THEN 0 ELSE Size(Head(nodes)) + SumSizes(Tail(nodes))

----------------------------------------------------------------------------
(* The explored modules: what a node of each kind may be.                  *)

LoggerNames == {"logger", "log"}
FuncNames == {"foo"}
ExcNames == {"e"}
Callees == {"eprint", "str"}
Lowercase_info == <<"i", "n", "f", "o">>
BracePair == <<"{", "}">>
Templates ==
    { BracePair, <<"{", "0", "}">>, <<"{", "}", "%">>, <<"{", "}", "{", "0", "}">>,
      <<"{", ":", "d", "}">>, <<"{", "}", "{", "}">> }
AssignLiterals == {BracePair}
FormatCall(template) == Node("Format", "", "Str", DoubleQuote, template, <<>>, <<>>)
NameFormatCall(name) == Node("Format", name, "Name", "", <<>>, <<>>, <<>>)

----------------------------------------------------------------------------
(* Where the traversal is.                                                 *)

Top == open[Len(open)]

StructuralDepth == Cardinality({i \in DOMAIN open : IsStructural(open[i])})

RECURSIVE OpenCallNodes(_)
\* Argument nodes of the statement-level call being traversed: the arguments
\* already left, and the nested calls still open.
OpenCallNodes(i) ==
    IF i > Len(open) THEN 0
    ELSE (IF IsCallLike(open[i])
          THEN SumSizes(open[i].args) + (IF i < Len(open) THEN 1 ELSE 0)
          ELSE 0) + OpenCallNodes(i + 1)

\* The function definitions around the traversal's position, outermost first.
EnclosingFunctions == SelectSeq(open, LAMBDA n : n.kind = "FunctionDef")

\* QualifiedNameProvider: PEP 3155 names, "foo" and "foo.<locals>.bar".
QualifiedName(name) ==
    IF EnclosingFunctions = <<>>
    THEN <<name>>
    ELSE EnclosingFunctions[Len(EnclosingFunctions)].qualname \o <<".<locals>.", name>>

\* ScopeProvider: the scope of a node is the innermost function around it,
\* named here by that function's qualified name; the global scope is <<>>.
GlobalScope == <<>>
CurrentScope ==
    IF EnclosingFunctions = <<>>
    THEN GlobalScope
    ELSE EnclosingFunctions[Len(EnclosingFunctions)].qualname

\* m.call_if_inside(m.Call(func=m.Name()))
InsideNameCall == \E i \in DOMAIN open : open[i].kind = "Call"

\* Scope.parent; the global scope is its own parent.
ScopeParent(scope) ==
    IF scope = GlobalScope THEN GlobalScope ELSE SubSeq(scope, 1, Len(scope) - 2)

----------------------------------------------------------------------------
(* Warnings, exceptions and what a handler returns.                        *)

\* f"{msg} :: line {pos.line}, column {pos.column}"; count is the number the
\* message starts with, 0 when it has none.
AtNode(msg, count, pos) == [msg |-> msg, count |-> count, pos |-> pos]

NoPos == [line |-> 0, column |-> 0]
NoError == [type |-> "", msg |-> "", pos |-> NoPos]
Error(type, msg, pos) == [type |-> type, msg |-> msg, pos |-> pos]

\* raise_at_node(node, msg)
raise_at_node(pos, msg) == Error("LogFuncReplaceException", msg, pos)

\* A call expression <obj>.<attr>(args[, exc_info=True]).
NoOut == [obj |-> "", attr |-> <<>>, args |-> <<>>, exc_info |-> FALSE]
LoggerCall(obj, attr, args, exc_info) ==
    [obj |-> obj, attr |-> attr, args |-> args, exc_info |-> exc_info]

\* kind: "none" (the handler returns nothing or its node unchanged in a way no
\* claim reads), "unchanged", "normal", "exception", "raised", "hung", "module".
Result(kind, call, pos, out, warnings, error, converted) ==
    [kind |-> kind, call |-> call, pos |-> pos, out |-> out,
     warnings |-> warnings, error |-> error, converted |-> converted]
NoResult == Result("none", NoNode, NoPos, NoOut, <<>>, NoError, {})

----------------------------------------------------------------------------
(* The argument classifier.                                                *)

\* CSTString; name "" is None, hasLiteral FALSE is literal None.
CSTString(name, hasLiteral, literal, format_args) ==
    [found |-> TRUE, name |-> name, hasLiteral |-> hasLiteral,
     literal |-> literal, format_args |-> format_args]
NoComponents ==
    [found |-> FALSE, name |-> "", hasLiteral |-> FALSE,
     literal |-> <<>>, format_args |-> <<>>]

\* A variant of get_string_components that takes any bare name for a string
\* variable, recorded or not.
get_string_components_AnyName(node) ==
    IF node.kind = "Str"
    THEN CSTString("", TRUE, literal_eval(node), <<>>)
    ELSE IF node.kind = "Format"
    THEN IF node.base = "Str"
         THEN CSTString("", TRUE, literal_eval(node), node.args)
         ELSE IF node.base = "Name" /\ node.name \in DOMAIN string_varnames
         THEN CSTString(node.name, FALSE, <<>>, node.args)
         ELSE CSTString("", FALSE, <<>>, node.args)
    ELSE IF node.kind = "Name"
    THEN CSTString(node.name, FALSE, <<>>, <<>>)
    ELSE NoComponents

get_string_components(node) ==
    IF node.kind = "Str"
    THEN CSTString("", TRUE, literal_eval(node), <<>>)
    ELSE IF node.kind = "Format"
    THEN IF node.base = "Str"
         THEN CSTString("", TRUE, literal_eval(node), node.args)
         ELSE IF node.base = "Name" /\ node.name \in DOMAIN string_varnames
         THEN CSTString(node.name, FALSE, <<>>, node.args)
         ELSE CSTString("", FALSE, <<>>, node.args)
    ELSE IF node.kind = "Name" /\ node.name \in DOMAIN string_varnames
    THEN CSTString(node.name, FALSE, <<>>, <<>>)
    ELSE NoComponents

UnrecognizedWarning == "unrecognized argument(s) found in logfunc call"
FileWarning == "File argument in logfunc call"
MultipleLoglevels == "Multiple loglevels in logfunc call"
MalformedCall == "Malformed logfunc call"

\* raise_at_node("Multiple loglevels in logfunc call"): the call passes the
\* message as `node` and no `msg`, so Python raises TypeError before the body.
MultipleLoglevelsError ==
    Error("TypeError", "raise_at_node() missing 1 required positional argument: 'msg'", NoPos)

ClassifyStart ==
    [hasLevel |-> FALSE, loglevel |-> <<>>, hasMsg |-> FALSE, msg |-> NoComponents,
     unrecognized |-> 0, warnings |-> <<>>, error |-> NoError]

\* A variant of ClassifyArg that takes a level literal as the level only once
\* the message is found, as if the level had to follow the message.
ClassifyArg_LevelAfterMessage(acc, arg, pos) ==
    LET comps == get_string_components(arg) IN
    IF comps.found
    THEN IF comps.hasLiteral /\ comps.literal \in LOGLEVELS /\ acc.hasMsg
         THEN IF acc.hasLevel
              THEN [acc EXCEPT !.error = MultipleLoglevelsError]
              ELSE [acc EXCEPT !.hasLevel = TRUE, !.loglevel = comps.literal]
         ELSE IF comps.name # "" /\ Lower(Chars(comps.name)) = <<"f", "i", "l", "e">>
         THEN [acc EXCEPT !.warnings = Append(@, AtNode(FileWarning, 0, pos))]
         ELSE IF ~acc.hasMsg
         THEN [acc EXCEPT !.hasMsg = TRUE, !.msg = comps]
         ELSE [acc EXCEPT !.unrecognized = @ + 1]
    ELSE IF arg.kind = "Name" /\ arg.name \in handled_exceptions
    THEN acc
    ELSE [acc EXCEPT !.unrecognized = @ + 1]

\* One iteration of the loop over node.args.
ClassifyArg(acc, arg, pos) ==
    LET comps == get_string_components(arg) IN
    IF comps.found
    THEN IF comps.hasLiteral /\ comps.literal \in LOGLEVELS
         THEN IF acc.hasLevel
              THEN [acc EXCEPT !.error = MultipleLoglevelsError]
              ELSE [acc EXCEPT !.hasLevel = TRUE, !.loglevel = comps.literal]
         ELSE IF comps.name # "" /\ Lower(Chars(comps.name)) = <<"f", "i", "l", "e">>
         THEN [acc EXCEPT !.warnings = Append(@, AtNode(FileWarning, 0, pos))]
         ELSE IF ~acc.hasMsg
         THEN [acc EXCEPT !.hasMsg = TRUE, !.msg = comps]
         ELSE [acc EXCEPT !.unrecognized = @ + 1]
    ELSE IF arg.kind = "Name" /\ arg.name \in handled_exceptions
    THEN acc
    ELSE [acc EXCEPT !.unrecognized = @ + 1]

RECURSIVE ClassifyFrom(_, _, _, _)
ClassifyFrom(acc, args, i, pos) ==
    IF i > Len(args) \/ acc.error # NoError
    THEN acc
    ELSE ClassifyFrom(ClassifyArg(acc, args[i], pos), args, i + 1, pos)

\* A variant of get_logfunc_arguments without the check after the loop.
get_logfunc_arguments_Unchecked(node, pos) ==
    LET looped == ClassifyFrom(ClassifyStart, node.args, 1, pos)
    IN  IF looped.unrecognized > 0
        THEN [looped EXCEPT !.warnings =
                 Append(@, AtNode(UnrecognizedWarning, looped.unrecognized, pos))]
        ELSE looped

\* get_logfunc_arguments(node), node at position pos: the loop's result, then
\* the warning and the check after the loop.
get_logfunc_arguments(node, pos) ==
    LET looped == ClassifyFrom(ClassifyStart, node.args, 1, pos)
        warned ==
            IF looped.unrecognized > 0
            THEN [looped EXCEPT !.warnings =
                     Append(@, AtNode(UnrecognizedWarning, looped.unrecognized, pos))]
            ELSE looped
    IN  IF looped.error # NoError THEN looped
        ELSE IF ~warned.hasMsg \/ ~warned.hasLevel
        THEN [warned EXCEPT !.error = raise_at_node(pos, MalformedCall)]
        ELSE warned

----------------------------------------------------------------------------
(* The call rewriter.                                                      *)

ScopeNotFound == "Could not find scope of string variable definition"
ConversionFailed == "Failed to convert str.format() call to %-style format string"
UnknownQualifiedName ==
    "Unable to find qualified name for function context of exception (QualifiedNameProvider returned empty set)"

\* A Name node inside the call at pos: same line, further right.
NamePos(pos) == [pos EXCEPT !.column = @ + 1]

\* ensure_assigned_format_is_percent(node) for the Name `name` in the call at
\* pos: the assignment it schedules, the error it raises, or "hung" when the
\* loop `while scope not in map` never leaves (scope is never reassigned).
ensure_assigned_format_is_percent(name, pos) ==
    LET map == string_varnames[name]
        scope == CurrentScope
    IN  IF scope \in DOMAIN map
        THEN [status |-> "ok", scheduled |-> {map[scope]}, error |-> NoError]
        ELSE IF ScopeParent(scope) = scope
        THEN [status |-> "raised", scheduled |-> {},
              error |-> raise_at_node(NamePos(pos), ScopeNotFound)]
        ELSE [status |-> "hung", scheduled |-> {}, error |-> NoError]

\* Variants of ExceptionScope the claims about the label must tell apart from
\* it: the innermost function's bare name, and "UNKNOWN" at module scope.
ExceptionScope_BareName(resolved) ==
    IF function_context # <<>>
    THEN IF resolved
         THEN <<function_context[Len(function_context)].name>>
         ELSE <<"UNKNOWN">>
    ELSE <<"Module">>

ExceptionScope_UnknownAtModule(resolved) ==
    IF function_context # <<>> /\ resolved
    THEN function_context[Len(function_context)].qualname
    ELSE <<"UNKNOWN">>

\* The label of the exception replacement.  `resolved` is whether
\* QualifiedNameProvider holds a name for the innermost function.
ExceptionScope(resolved) ==
    IF function_context # <<>>
    THEN IF resolved
         THEN function_context[Len(function_context)].qualname
         ELSE <<"UNKNOWN">>
    ELSE <<"Module">>

\* logger.exception("Error in function: <label>", exc_info=True)
ExceptionReplacement(resolved) ==
    LoggerCall(logger_name, <<"exception">>,
               <<StrNode(DoubleQuote, <<"Error in function: ">> \o ExceptionScope(resolved))>>,
               TRUE)

\* logger.<level>(fmt, *msg.format_args)
NormalReplacement(loglevel, fmt, format_args) ==
    LoggerCall("logger", Lower(loglevel), <<fmt>> \o format_args, FALSE)

Handled(result, popped, scheduled) ==
    [result |-> result, popped |-> popped, scheduled |-> scheduled]

\* The branch of change_logfunc_to_logger below the exception branch:
\* template conversion, then the replacement.
ConvertAndReplace(original, pos, cls) ==
    LET msg == cls.msg
        ensured ==
            IF msg.format_args # <<>> /\ msg.name # ""
            THEN ensure_assigned_format_is_percent(msg.name, pos)
            ELSE [status |-> "ok", scheduled |-> {}, error |-> NoError]
        inline == msg.format_args # <<>> /\ msg.name = ""
        literal == IF inline THEN ReplaceBraces(msg.literal) ELSE msg.literal
        trial == IF inline THEN PercentFormat(literal, Len(msg.format_args)) ELSE "ok"
        raised(error) ==
            Handled(Result("raised", original, pos, NoOut, cls.warnings, error, {}), TRUE, {})
    IN  IF ensured.status = "hung"
        THEN Handled(Result("hung", original, pos, NoOut, cls.warnings, NoError, {}), TRUE, {})
        ELSE IF ensured.status = "raised" THEN raised(ensured.error)
        ELSE IF inline /\ ~msg.hasLiteral
        THEN raised(Error("AttributeError", "'NoneType' object has no attribute 'replace'", NoPos))
        ELSE IF trial = "TypeError" THEN raised(raise_at_node(pos, ConversionFailed))
        ELSE IF trial = "ValueError"
        THEN raised(Error("ValueError", "unsupported or incomplete format", NoPos))
        ELSE IF msg.name = "" /\ ~msg.hasLiteral
        THEN raised(Error("CSTValidationError", "SimpleString(value=repr(None))", NoPos))
        ELSE Handled(
                Result("normal", original, pos,
                       NormalReplacement(cls.loglevel,
                                         IF msg.name # "" THEN NameNode(msg.name)
                                         ELSE repr(literal),
                                         msg.format_args),
                       cls.warnings, NoError, {}),
                TRUE, ensured.scheduled)

\* change_logfunc_to_logger with the exception branch decided ahead of the
\* classification: a call that names a handled exception is never rejected.
change_logfunc_to_logger_BranchFirst(original, pos, resolved) ==
    IF original.name \notin logfuncs
    THEN Handled(Result("unchanged", original, pos, NoOut, <<>>, NoError, {}), FALSE, {})
    ELSE IF excs_in_logfunc_call # <<>> /\ excs_in_logfunc_call[Len(excs_in_logfunc_call)] > 0
    THEN Handled(Result("exception", original, pos, ExceptionReplacement(resolved),
                        <<>>, NoError, {}),
                 TRUE, {})
    ELSE LET cls == get_logfunc_arguments(original, pos) IN
         IF cls.error # NoError
         THEN Handled(Result("raised", original, pos, NoOut, cls.warnings, cls.error, {}),
                      FALSE, {})
         ELSE IF excs_in_logfunc_call = <<>>
         THEN Handled(Result("raised", original, pos, NoOut, cls.warnings,
                             Error("IndexError", "pop from empty list", NoPos), {}),
                      FALSE, {})
         ELSE ConvertAndReplace(original, pos, cls)

\* change_logfunc_to_logger with the template converted ahead of the branch
\* decision: what the conversion raises, it raises for every call.
change_logfunc_to_logger_ConvertFirst(original, pos, resolved) ==
    IF original.name \notin logfuncs
    THEN Handled(Result("unchanged", original, pos, NoOut, <<>>, NoError, {}), FALSE, {})
    ELSE LET cls == get_logfunc_arguments(original, pos) IN
         IF cls.error # NoError
         THEN Handled(Result("raised", original, pos, NoOut, cls.warnings, cls.error, {}),
                      FALSE, {})
         ELSE IF excs_in_logfunc_call = <<>>
         THEN Handled(Result("raised", original, pos, NoOut, cls.warnings,
                             Error("IndexError", "pop from empty list", NoPos), {}),
                      FALSE, {})
         ELSE IF /\ excs_in_logfunc_call[Len(excs_in_logfunc_call)] > 0
                 /\ ConvertAndReplace(original, pos, cls).result.kind = "normal"
         THEN Handled(
                Result("exception", original, pos, ExceptionReplacement(resolved),
                       IF function_context # <<>> /\ ~resolved
                       THEN Append(cls.warnings, AtNode(UnknownQualifiedName, 0, pos))
                       ELSE cls.warnings,
                       NoError, {}),
                TRUE, {})
         ELSE ConvertAndReplace(original, pos, cls)

\* change_logfunc_to_logger with the label fallback left silent: "UNKNOWN"
\* without the warning.
change_logfunc_to_logger_Silent(original, pos, resolved) ==
    IF original.name \notin logfuncs
    THEN Handled(Result("unchanged", original, pos, NoOut, <<>>, NoError, {}), FALSE, {})
    ELSE LET cls == get_logfunc_arguments(original, pos) IN
         IF cls.error # NoError
         THEN Handled(Result("raised", original, pos, NoOut, cls.warnings, cls.error, {}),
                      FALSE, {})
         ELSE IF excs_in_logfunc_call = <<>>
         THEN Handled(Result("raised", original, pos, NoOut, cls.warnings,
                             Error("IndexError", "pop from empty list", NoPos), {}),
                      FALSE, {})
         ELSE IF excs_in_logfunc_call[Len(excs_in_logfunc_call)] > 0
         THEN Handled(
                Result("exception", original, pos, ExceptionReplacement(resolved),
                       cls.warnings, NoError, {}),
                TRUE, {})
         ELSE ConvertAndReplace(original, pos, cls)

\* change_logfunc_to_logger(original, updated) for the call `original` at
\* position pos.
change_logfunc_to_logger(original, pos, resolved) ==
    IF original.name \notin logfuncs
    THEN Handled(Result("unchanged", original, pos, NoOut, <<>>, NoError, {}), FALSE, {})
    ELSE LET cls == get_logfunc_arguments(original, pos) IN
         IF cls.error # NoError
         THEN Handled(Result("raised", original, pos, NoOut, cls.warnings, cls.error, {}),
                      FALSE, {})
         ELSE IF excs_in_logfunc_call = <<>>
         THEN Handled(Result("raised", original, pos, NoOut, cls.warnings,
                             Error("IndexError", "pop from empty list", NoPos), {}),
                      FALSE, {})
         ELSE IF excs_in_logfunc_call[Len(excs_in_logfunc_call)] > 0
         THEN Handled(
                Result("exception", original, pos, ExceptionReplacement(resolved),
                       IF function_context # <<>> /\ ~resolved
                       THEN Append(cls.warnings, AtNode(UnknownQualifiedName, 0, pos))
                       ELSE cls.warnings,
                       NoError, {}),
                TRUE, {})
         ELSE ConvertAndReplace(original, pos, cls)

----------------------------------------------------------------------------
(* The traversal: Init is the command as constructed, then one action per  *)
(* node event.                                                             *)

\* ExceptionStack(tasks) as __init__ leaves it: tasks, the queue, each task
\* standing for what calling it does; exceptions, the list of the tasks that
\* raised; and, of its use, ran (the tasks called so far, in order), called
\* (the method called last), results (what that method returned), raised
\* (what it raised) and inside (a `with` block on the stack is open).
ExceptionStack(tasks) ==
    [tasks |-> tasks, exceptions |-> <<>>, ran |-> <<>>, called |-> "__init__",
     results |-> <<>>, raised |-> "", inside |-> FALSE]

\* The command as __init__ leaves it, constructed with logger_name = name; no
\* RemoveLogfuncDefAndImports ran before it and the ExceptionStack is unused.
Constructed(name) ==
    /\ pc = "start"
    /\ open = <<>>
    /\ logger_name = name
    /\ logfuncs = {"eprint"}
    /\ function_context = <<>>
    /\ handled_exceptions = {}
    /\ excs_in_logfunc_call = <<>>
    /\ string_varnames = <<>>
    /\ postprocess = {}
    /\ needed_imports = {}
    /\ global_statements = <<>>
    /\ last = NoResult
    /\ run = 1
    /\ tree = <<>> /\ cursor = 0
    /\ stack = ExceptionStack(<<>>)

\* A module whose top-level statements are left out of the account.
Init == Constructed("logger") /\ body = <<>> /\ split_at_last_import = FALSE

\* The open nodes once the innermost is left: a node inside the arguments of
\* a call becomes the next argument of that call.
Left(node) ==
    LET rest == SubSeq(open, 1, Len(open) - 1) IN
    IF rest # <<>> /\ IsCallLike(rest[Len(rest)])
    THEN [rest EXCEPT ![Len(rest)].args = Append(@, node)]
    ELSE rest

AtStatement == pc = "running" /\ (IF open = <<>> THEN TRUE ELSE IsStructural(Top))
InCall == pc = "running" /\ open # <<>> /\ IsCallLike(Top)

\* Recorded (name, scope) pairs of the string-variable registry.
Recorded == UNION {{n} \X DOMAIN string_varnames[n] : n \in DOMAIN string_varnames}

\* self._string_varnames.setdefault(name, {})[scope] = value
Registered(name, scope, value) ==
    LET old == IF name \in DOMAIN string_varnames THEN string_varnames[name] ELSE <<>>
        new == [sc \in DOMAIN old \cup {scope} |-> IF sc = scope THEN value ELSE old[sc]]
    IN  [n \in DOMAIN string_varnames \cup {name} |->
            IF n = name THEN new ELSE string_varnames[n]]

\* A variant of check_global_scope_for_logger that schedules the declaration
\* before it looks at the global scope.
check_global_scope_for_logger_ScheduleFirst(defined) ==
    /\ pc = "start"
    /\ global_statements' =
           Append(global_statements, <<logger_name, " = logging.getLogger(__name__)">>)
    /\ IF defined
       THEN /\ pc' = "aborted"
            /\ last' = Result("raised", NoNode, NoPos, NoOut, <<>>,
                              Error("LogFuncReplaceException",
                                    "Module scope already contains the name", NoPos), {})
       ELSE /\ pc' = "running"
            /\ last' = NoResult
    /\ UNCHANGED <<open, logger_name, logfuncs, function_context, handled_exceptions,
                   excs_in_logfunc_call, string_varnames, postprocess, needed_imports>>
    /\ UNCHANGED module_vars

\* @m.visit(m.Module()) check_global_scope_for_logger; `defined` is whether
\* the module's global scope holds the logger name.
check_global_scope_for_logger(defined) ==
    /\ pc = "start"
    /\ IF defined
       THEN /\ pc' = "aborted"
            /\ last' = Result("raised", NoNode, NoPos, NoOut, <<>>,
                              Error("LogFuncReplaceException",
                                    "Module scope already contains the name", NoPos), {})
            /\ UNCHANGED global_statements
       ELSE /\ pc' = "running"
            /\ last' = NoResult
            /\ global_statements' =
                   Append(global_statements, <<logger_name, " = logging.getLogger(__name__)">>)
    /\ UNCHANGED <<open, logger_name, logfuncs, function_context, handled_exceptions,
                   excs_in_logfunc_call, string_varnames, postprocess, needed_imports>>
    /\ UNCHANGED module_vars

\* @m.visit(m.FunctionDef()) push_function_onto_context
push_function_onto_context(name) ==
    /\ AtStatement
    /\ LET node == Node("FunctionDef", name, "", "", <<>>, <<>>, QualifiedName(name)) IN
       /\ open' = Append(open, node)
       /\ function_context' = Append(function_context, node)
    /\ last' = NoResult
    /\ UNCHANGED <<pc, logger_name, logfuncs, handled_exceptions, excs_in_logfunc_call,
                   string_varnames, postprocess, needed_imports, global_statements>>
    /\ UNCHANGED module_vars

\* A variant of pop_function_context that leaves the stack as it is.
pop_function_context_NoPop ==
    /\ pc = "running" /\ open # <<>> /\ Top.kind = "FunctionDef"
    /\ open' = Left(Top)
    /\ last' = NoResult
    /\ UNCHANGED <<pc, logger_name, logfuncs, function_context, handled_exceptions,
                   excs_in_logfunc_call, string_varnames, postprocess, needed_imports,
                   global_statements>>
    /\ UNCHANGED module_vars

\* @m.leave(m.FunctionDef()) pop_function_context
pop_function_context ==
    /\ pc = "running" /\ open # <<>> /\ Top.kind = "FunctionDef"
    /\ open' = Left(Top)
    /\ function_context' = SubSeq(function_context, 1, Len(function_context) - 1)
    /\ last' = NoResult
    /\ UNCHANGED <<pc, logger_name, logfuncs, handled_exceptions, excs_in_logfunc_call,
                   string_varnames, postprocess, needed_imports, global_statements>>
    /\ UNCHANGED module_vars

\* Entering an except handler; @m.visit(m.ExceptHandler(name=m.AsName()))
\* push_named_exception runs when the handler has an `as` name.
push_named_exception(name) ==
    /\ AtStatement
    /\ open' = Append(open, Node("ExceptHandler", name, "", "", <<>>, <<>>, <<>>))
    /\ handled_exceptions' =
           IF name # "" THEN handled_exceptions \cup {name} ELSE handled_exceptions
    /\ last' = NoResult
    /\ UNCHANGED <<pc, logger_name, logfuncs, function_context, excs_in_logfunc_call,
                   string_varnames, postprocess, needed_imports, global_statements>>
    /\ UNCHANGED module_vars

\* Leaving an except handler; @m.leave(m.ExceptHandler(name=m.AsName()))
\* pop_named_exception runs when the handler has an `as` name.
pop_named_exception ==
    /\ pc = "running" /\ open # <<>> /\ Top.kind = "ExceptHandler"
    /\ open' = Left(Top)
    /\ handled_exceptions' =
           IF Top.name # "" THEN handled_exceptions \ {Top.name} ELSE handled_exceptions
    /\ last' = NoResult
    /\ UNCHANGED <<pc, logger_name, logfuncs, function_context, excs_in_logfunc_call,
                   string_varnames, postprocess, needed_imports, global_statements>>
    /\ UNCHANGED module_vars

\* @m.leave(m.Assign(targets=[Name], value=m.SimpleString()))
\* record_string_assignment, for the statement `target = <quote>text<quote>`.
record_string_assignment(target, quote, text) ==
    /\ AtStatement
    /\ string_varnames' = Registered(target, CurrentScope, AssignNode(target, quote, text))
    /\ last' = NoResult
    /\ UNCHANGED <<pc, open, logger_name, logfuncs, function_context, handled_exceptions,
                   excs_in_logfunc_call, postprocess, needed_imports, global_statements>>
    /\ UNCHANGED module_vars

\* @m.leave(m.Assign(targets=[Name], value=<caller>.format(...)))
\* record_template_string_assignment; the caller is a SimpleString
\* (callerName "") or the bare name callerName.
record_template_string_assignment(target, callerName) ==
    /\ AtStatement
    /\ string_varnames' =
           IF callerName = "" \/ callerName \in DOMAIN string_varnames
           THEN Registered(target, CurrentScope, NoNode)
           ELSE string_varnames
    /\ last' = NoResult
    /\ UNCHANGED <<pc, open, logger_name, logfuncs, function_context, handled_exceptions,
                   excs_in_logfunc_call, postprocess, needed_imports, global_statements>>
    /\ UNCHANGED module_vars

\* A variant of enter_logfunc_context that takes every bare-name callee for a
\* known log function.
enter_logfunc_context_AnyName(name) ==
    /\ pc = "running"
    /\ open' = Append(open, Node("Call", name, "", "", <<>>, <<>>, <<>>))
    /\ excs_in_logfunc_call' = Append(excs_in_logfunc_call, 0)
    /\ needed_imports' = needed_imports \cup {"logging"}
    /\ last' = NoResult
    /\ UNCHANGED <<pc, logger_name, logfuncs, function_context, handled_exceptions,
                   string_varnames, postprocess, global_statements>>
    /\ UNCHANGED module_vars

\* A variant of enter_logfunc_context that schedules no import.
enter_logfunc_context_NoImport(name) ==
    /\ pc = "running"
    /\ open' = Append(open, Node("Call", name, "", "", <<>>, <<>>, <<>>))
    /\ IF name \in logfuncs
       THEN excs_in_logfunc_call' = Append(excs_in_logfunc_call, 0)
       ELSE UNCHANGED excs_in_logfunc_call
    /\ last' = NoResult
    /\ UNCHANGED <<pc, logger_name, logfuncs, function_context, handled_exceptions,
                   string_varnames, postprocess, needed_imports, global_statements>>
    /\ UNCHANGED module_vars

\* @m.visit(m.Call(func=m.Name())) enter_logfunc_context, entering name(...)
enter_logfunc_context(name) ==
    /\ pc = "running"
    /\ open' = Append(open, Node("Call", name, "", "", <<>>, <<>>, <<>>))
    /\ IF name \in logfuncs
       THEN /\ excs_in_logfunc_call' = Append(excs_in_logfunc_call, 0)
            /\ needed_imports' = needed_imports \cup {"logging"}
       ELSE UNCHANGED <<excs_in_logfunc_call, needed_imports>>
    /\ last' = NoResult
    /\ UNCHANGED <<pc, logger_name, logfuncs, function_context, handled_exceptions,
                   string_varnames, postprocess, global_statements>>
    /\ UNCHANGED module_vars

\* Entering a call whose callee is an attribute: <base>.format(...) or
\* <obj>.name(...).  No handler of the command matches it.
VisitAttributeCall(node) ==
    /\ pc = "running"
    /\ open' = Append(open, node)
    /\ last' = NoResult
    /\ UNCHANGED <<pc, logger_name, logfuncs, function_context, handled_exceptions,
                   excs_in_logfunc_call, string_varnames, postprocess, needed_imports,
                   global_statements>>
    /\ UNCHANGED module_vars

\* Leaving a call whose callee is an attribute.
LeaveAttributeCall ==
    /\ InCall /\ Top.kind \in {"Format", "AttrCall"}
    /\ open' = Left(Top)
    /\ last' = NoResult
    /\ UNCHANGED <<pc, logger_name, logfuncs, function_context, handled_exceptions,
                   excs_in_logfunc_call, string_varnames, postprocess, needed_imports,
                   global_statements>>
    /\ UNCHANGED module_vars

\* A variant of set_exc_context that counts the reference for every open call
\* to a known log function.
set_exc_context_EveryCounter(arg) ==
    /\ InCall
    /\ open' = [open EXCEPT ![Len(open)].args = Append(@, arg)]
    /\ excs_in_logfunc_call' =
           IF /\ arg.kind = "Name"
              /\ InsideNameCall
              /\ arg.name \in handled_exceptions
           THEN [i \in DOMAIN excs_in_logfunc_call |-> excs_in_logfunc_call[i] + 1]
           ELSE excs_in_logfunc_call
    /\ last' = NoResult
    /\ UNCHANGED <<pc, logger_name, logfuncs, function_context, handled_exceptions,
                   string_varnames, postprocess, needed_imports, global_statements>>
    /\ UNCHANGED module_vars

\* An argument that is a string literal or a bare name;
\* @m.call_if_inside(m.Call(func=m.Name())) @m.visit(m.Arg(value=m.Name()))
\* set_exc_context runs for the bare name.
set_exc_context(arg) ==
    /\ InCall
    /\ open' = [open EXCEPT ![Len(open)].args = Append(@, arg)]
    /\ excs_in_logfunc_call' =
           IF /\ arg.kind = "Name"
              /\ InsideNameCall
              /\ arg.name \in handled_exceptions
              /\ excs_in_logfunc_call # <<>>
           THEN [excs_in_logfunc_call EXCEPT ![Len(excs_in_logfunc_call)] = @ + 1]
           ELSE excs_in_logfunc_call
    /\ last' = NoResult
    /\ UNCHANGED <<pc, logger_name, logfuncs, function_context, handled_exceptions,
                   string_varnames, postprocess, needed_imports, global_statements>>
    /\ UNCHANGED module_vars

\* PositionProvider: the explored modules hold one block header per line and
\* indent by four columns, and a call is the statement under the innermost
\* open header.
CallPosition == [line |-> 1 + StructuralDepth, column |-> 4 * StructuralDepth]

\* The module with the call the traversal is leaving replaced: the first
\* top-level statement that still holds a call through a known name holds the
\* logger call instead.  A tree without such a statement is left as it is.
HoldsLogfuncCall(st) == st.kind = "other" /\ st.name \in logfuncs
with_changes(stmts, out) ==
    IF \E i \in DOMAIN stmts : HoldsLogfuncCall(stmts[i])
    THEN LET i == CHOOSE k \in DOMAIN stmts :
                      /\ HoldsLogfuncCall(stmts[k])
                      /\ \A j \in 1..(k - 1) : ~HoldsLogfuncCall(stmts[j])
         IN  [stmts EXCEPT ![i].name = out.obj]
    ELSE stmts

\* A variant of LeaveCall that goes on with the traversal after the handler
\* raised, the call left as it was.
LeaveCall_Resumed(resolved) ==
    /\ InCall /\ Top.kind = "Call"
    /\ LET pos == CallPosition
           h == change_logfunc_to_logger(Top, pos, resolved)
       IN  /\ last' = h.result
           /\ excs_in_logfunc_call' =
                  IF h.popped
                  THEN SubSeq(excs_in_logfunc_call, 1, Len(excs_in_logfunc_call) - 1)
                  ELSE excs_in_logfunc_call
           /\ postprocess' = postprocess \cup h.scheduled
           /\ pc' = "running"
           /\ open' = Left(Top)
           /\ body' = with_changes(body, IF h.result.kind \in {"normal", "exception"}
                                         THEN h.result.out
                                         ELSE [NoOut EXCEPT !.obj = "skipped"])
    /\ UNCHANGED <<logger_name, logfuncs, function_context, handled_exceptions,
                   string_varnames, needed_imports, global_statements,
                   run, split_at_last_import, tree, cursor, stack>>

\* @m.leave(m.Call(func=m.Name())) change_logfunc_to_logger, leaving the call
\* on top; QualifiedNameProvider may or may not hold a name for the innermost
\* function.
LeaveCall(resolved) ==
    /\ InCall /\ Top.kind = "Call"
    /\ LET pos == CallPosition
           h == change_logfunc_to_logger(Top, pos, resolved)
       IN  /\ last' = h.result
           /\ excs_in_logfunc_call' =
                  IF h.popped
                  THEN SubSeq(excs_in_logfunc_call, 1, Len(excs_in_logfunc_call) - 1)
                  ELSE excs_in_logfunc_call
           /\ postprocess' = postprocess \cup h.scheduled
           /\ pc' = CASE h.result.kind = "raised" -> "aborted"
                      [] h.result.kind = "hung" -> "hung"
                      [] OTHER -> "running"
           /\ open' = IF h.result.kind \in {"raised", "hung"} THEN open ELSE Left(Top)
           /\ body' = IF h.result.kind \in {"normal", "exception"}
                       THEN with_changes(body, h.result.out)
                       ELSE body
    /\ UNCHANGED <<logger_name, logfuncs, function_context, handled_exceptions,
                   string_varnames, needed_imports, global_statements,
                   run, split_at_last_import, tree, cursor, stack>>

\* convert_format(node): the assignment with "{}" replaced in its literal.
convert_format(node) == AssignNode(node.name, repr(ReplaceBraces(literal_eval(node))).quote,
                                   ReplaceBraces(literal_eval(node)))

\* @m.leave(m.Module()) postprocess_assignment_nodes
postprocess_assignment_nodes ==
    /\ pc = "running" /\ open = <<>>
    /\ IF NoNode \in postprocess
       THEN /\ pc' = "aborted"
            /\ last' = Result("raised", NoNode, NoPos, NoOut, <<>>,
                              Error("AttributeError",
                                    "'NoneType' object has no attribute 'value'", NoPos), {})
       ELSE /\ pc' = "done"
            /\ last' = Result("module", NoNode, NoPos, NoOut, <<>>, NoError,
                              {<<node, convert_format(node)>> : node \in postprocess})
    /\ UNCHANGED <<open, logger_name, logfuncs, function_context, handled_exceptions,
                   excs_in_logfunc_call, string_varnames, postprocess, needed_imports,
                   global_statements>>
    /\ UNCHANGED module_vars

----------------------------------------------------------------------------
(* The module's top-level statements, and what runs on them once the        *)
(* traversal is over: libcst's AddImportsVisitor, then, chained by           *)
(* CodemodBase.transform_module, AddGlobalStatements.                        *)

\* A top-level statement: kind "docstring", "import" (`import <name>`),
\* "assign" (`<name> = ...`), "def" (`def <name>(...):`) or "other"; leading is
\* its leading_lines, "blank" an EmptyLine without comment and "comment" one
\* with a comment; by is the transform that inserted it, "" for a statement
\* of the input module.  The name of an "other" statement is the function its
\* one call goes through, "" when it holds no call.  names are the
\* ImportAlias nodes of an import statement written out in full and inner the
\* statements of a function definition's body.
Statement(kind, name, leading, by) ==
    [kind |-> kind, name |-> name, leading |-> leading, by |-> by,
     names |-> <<>>, inner |-> <<>>]

\* cst.ImportAlias: name, the components of the dotted name; asname, the name
\* after `as`, "" without one; comma, whether a comma follows the alias.
ImportAlias(name, asname, comma) == [name |-> name, asname |-> asname, comma |-> comma]

\* `import <names>` or `from <module> import <names>`, and `from <module>
\* import *`, whose names are an ImportStar and not a list.
Import(names) == [Statement("import", "", <<>>, "") EXCEPT !.names = names]
ImportStar == Statement("import", "*", <<>>, "")

\* `def <name>(...):` with the statements of its body.
FunctionDef(name, inner) == [Statement("def", name, <<>>, "") EXCEPT !.inner = inner]

\* The name an alias binds: the one after `as`, else the first component.
BoundName(alias) == IF alias.asname # "" THEN alias.asname ELSE alias.name[1]

\* The names the module's global scope binds (ScopeProvider).
GlobalNames(stmts) ==
    {stmts[i].name : i \in {j \in DOMAIN stmts : /\ stmts[j].kind \in {"import", "assign", "def"}
                                                /\ stmts[j].names = <<>>}}
        \cup UNION {{BoundName(stmts[i].names[k]) : k \in DOMAIN stmts[i].names} :
                        i \in DOMAIN stmts}

\* cst.parse_statement(text) for the texts `<name> = <expression>`.
parse_statement(text) == Statement("assign", text[1], <<>>, "AddGlobalStatements")

\* AddGlobalStatements._ensure_blank_first_line
ensure_blank_first_line(statement) ==
    IF statement.leading = <<>>
    THEN [statement EXCEPT !.leading = <<"blank">>]
    ELSE IF statement.leading[1] = "blank"
    THEN statement
    ELSE [statement EXCEPT !.leading = <<"blank">> \o @]

\* AddImportsVisitor._insert_empty_line
insert_empty_line(stmts) ==
    IF stmts = <<>> THEN stmts ELSE <<ensure_blank_first_line(Head(stmts))>> \o Tail(stmts)

\* AddImportsVisitor._split_module: the number of statements that stay ahead
\* of what is added.  An initial docstring is skipped; then libcst takes the
\* end of the first run of imports, or, in the releases that look for the
\* module's last import, the last top-level import.
split_module(stmts) ==
    LET skip == IF stmts # <<>> /\ stmts[1].kind = "docstring" THEN 1 ELSE 0
        imports == {i \in DOMAIN stmts : stmts[i].kind = "import"}
        firstRun ==
            CHOOSE i \in skip..Len(stmts) :
                /\ \A j \in (skip + 1)..i : stmts[j].kind = "import"
                /\ i = Len(stmts) \/ stmts[i + 1].kind # "import"
        lastImport ==
            IF imports = {} THEN skip
            ELSE CHOOSE i \in imports : \A j \in imports : j <= i
    IN  IF split_at_last_import THEN lastImport ELSE firstRun

\* AddGlobalStatements._split_module_with_empty_line
split_module_with_empty_line(stmts) ==
    LET at == split_module(stmts) IN
    [prelude |-> SubSeq(stmts, 1, at),
     postlude |-> insert_empty_line(SubSeq(stmts, at + 1, Len(stmts)))]

\* A variant of leave_Module that puts the statements at the top of the module.
leave_Module_AtTop(statements, updated) ==
    IF statements = <<>>
    THEN updated
    ELSE LET parsed == [i \in DOMAIN statements |-> parse_statement(statements[i])]
         IN  <<ensure_blank_first_line(parsed[1])>> \o Tail(parsed) \o insert_empty_line(updated)

\* AddGlobalStatements.leave_Module, for an instance whose _statements are
\* `statements`.
leave_Module(statements, updated) ==
    IF statements = <<>>
    THEN updated
    ELSE LET split == split_module_with_empty_line(updated)
             parsed == [i \in DOMAIN statements |-> parse_statement(statements[i])]
         IN  split.prelude \o <<ensure_blank_first_line(parsed[1])>> \o Tail(parsed)
                 \o split.postlude

\* AddImportsVisitor on the module, `modules` being the imports scheduled in
\* the context: `import logging` is added at the split unless the module
\* imports logging already.
AddImportsVisitor(modules, stmts) ==
    IF "logging" \in modules /\ "logging" \notin GlobalNames(stmts)
    THEN LET at == split_module(stmts) IN
         SubSeq(stmts, 1, at)
             \o <<Statement("import", "logging", <<>>, "AddImportsVisitor")>>
             \o insert_empty_line(SubSeq(stmts, at + 1, Len(stmts)))
    ELSE stmts

\* CodemodBase.AUTOCHAIN
AUTOCHAIN == TRUE

\* AddGlobalStatements.add_global_statement(context, statement), called by
\* another transform that shares the context before this command runs.
add_global_statement(statement) ==
    /\ pc = "start"
    /\ global_statements' = Append(global_statements, statement)
    /\ last' = NoResult
    /\ UNCHANGED <<pc, open, logger_name, logfuncs, function_context, handled_exceptions,
                   excs_in_logfunc_call, string_varnames, postprocess, needed_imports>>
    /\ UNCHANGED module_vars

\* A variant of super_transform_module that leaves the imports where they are.
super_transform_module_NoImports ==
    /\ pc = "done"
    /\ pc' = "imported"
    /\ last' = NoResult
    /\ UNCHANGED <<open, logger_name, logfuncs, function_context, handled_exceptions,
                   excs_in_logfunc_call, string_varnames, postprocess, needed_imports,
                   global_statements, body, run, split_at_last_import, tree,
                   cursor, stack>>

\* tree = super().transform_module(tree), below the traversal: libcst's
\* CodemodCommand runs AddImportsVisitor when the context holds its key.
super_transform_module ==
    /\ pc = "done"
    /\ pc' = "imported"
    /\ body' = AddImportsVisitor(needed_imports, body)
    /\ last' = NoResult
    /\ UNCHANGED <<open, logger_name, logfuncs, function_context, handled_exceptions,
                   excs_in_logfunc_call, string_varnames, postprocess, needed_imports,
                   global_statements, run, split_at_last_import, tree, cursor,
                   stack>>

\* A variant of transform_module that leaves the command's own key in the
\* context.
transform_module_KeepKey ==
    /\ pc = "imported"
    /\ pc' = "returned"
    /\ IF global_statements # <<>>
       THEN /\ body' = AddImportsVisitor(needed_imports,
                                         leave_Module(global_statements, body))
            /\ global_statements' = <<>>
       ELSE UNCHANGED <<body, global_statements>>
    /\ last' = NoResult
    /\ UNCHANGED <<open, logger_name, logfuncs, function_context, handled_exceptions,
                   excs_in_logfunc_call, string_varnames, postprocess, needed_imports,
                   run, split_at_last_import, tree, cursor, stack>>

\* CodemodBase.transform_module below the super() call: the command's own key
\* leaves the context, then every other CodemodBase subclass whose key the
\* context holds is run.  Only AddGlobalStatements can be: its leave_Module,
\* AddImportsVisitor once more (libcst runs it after every command while its
\* key is there), and the removal of the AddGlobalStatements key.
transform_module ==
    /\ pc = "imported"
    /\ pc' = "returned"
    /\ IF AUTOCHAIN
       THEN /\ logfuncs' = {}
            /\ IF global_statements # <<>>
               THEN /\ body' = AddImportsVisitor(needed_imports,
                                                 leave_Module(global_statements, body))
                    /\ global_statements' = <<>>
               ELSE UNCHANGED <<body, global_statements>>
       ELSE UNCHANGED <<logfuncs, body, global_statements>>
    /\ last' = NoResult
    /\ UNCHANGED <<open, logger_name, function_context, handled_exceptions,
                   excs_in_logfunc_call, string_varnames, postprocess, needed_imports,
                   run, split_at_last_import, tree, cursor, stack>>

\* The command constructed and invoked once more, with a context of its own,
\* on the module the invocation before returned.
Reinvoke ==
    /\ pc = "returned"
    /\ pc' = "start"
    /\ run' = run + 1
    /\ body' = [i \in DOMAIN body |-> [body[i] EXCEPT !.by = ""]]
    /\ open' = <<>>
    /\ logfuncs' = {"eprint"}
    /\ function_context' = <<>>
    /\ handled_exceptions' = {}
    /\ excs_in_logfunc_call' = <<>>
    /\ string_varnames' = <<>>
    /\ postprocess' = {}
    /\ needed_imports' = {}
    /\ global_statements' = <<>>
    /\ last' = NoResult
    /\ UNCHANGED <<logger_name, split_at_last_import, tree, cursor, stack>>

----------------------------------------------------------------------------
(* RemoveLogfuncDefAndImports (remove_logfunc.py), the transform that runs   *)
(* ahead of the command: its traversal leaves the module's top-level         *)
(* statements one after the other, and its transform_module chains the       *)
(* command.                                                                  *)

\* self._logfunc, the constructor's default.
logfunc == "eprint"

\* What the known-names set holds when a node is added to it in place of a
\* string: the cst.AsName node of an alias, and the node left of the last dot
\* of a dotted name.  No callee name equals either.
AsNameNode == "<AsName>"
ValueNode == "<Name or Attribute>"

\* ReplaceFuncWithLoggerCommand.replace_logfunc(context, name) for every name
\* of `added`.
replace_logfunc(known, added) == known \cup added

\* node.name.value of an ImportAlias: the string of a Name, the node left of
\* the last dot of an Attribute.
NameValue(alias) == IF Len(alias.name) = 1 THEN alias.name[1] ELSE ValueNode

\* A variant of _filter_import_aliases that leaves the commas as they are.
filter_import_aliases_KeepCommas(names) ==
    [keep |-> SelectSeq(names, LAMBDA node : node.name[Len(node.name)] # logfunc),
     discard |-> SelectSeq(names, LAMBDA node : node.name[Len(node.name)] = logfunc),
     added |-> {IF names[i].asname # "" THEN AsNameNode ELSE NameValue(names[i]) :
                    i \in {j \in DOMAIN names : names[j].name[Len(names[j].name)] = logfunc}}]

\* RemoveLogfuncDefAndImports._filter_import_aliases(names): the aliases kept
\* and discarded, and what the loop adds to the known names.
RECURSIVE FilterFrom(_, _, _)
FilterFrom(acc, names, i) ==
    IF i > Len(names)
    THEN acc
    ELSE LET node == names[i] IN
         FilterFrom(
             IF node.name[Len(node.name)] # logfunc
             THEN [acc EXCEPT !.keep = Append(@, node)]
             ELSE IF node.asname # ""
             THEN [acc EXCEPT !.discard = Append(@, node), !.added = @ \cup {AsNameNode}]
             ELSE [acc EXCEPT !.discard = Append(@, node), !.added = @ \cup {NameValue(node)}],
             names, i + 1)
filter_import_aliases(names) ==
    LET looped == FilterFrom([keep |-> <<>>, discard |-> <<>>, added |-> {}], names, 1)
        keep == looped.keep
    IN  IF keep # <<>> /\ keep[Len(keep)] # names[Len(names)]
        THEN [looped EXCEPT !.keep[Len(keep)].comma = FALSE]
        ELSE looped

\* RemoveLogfuncDefAndImports._remove_references(node): the name it adds,
\* node.name.value, whatever the alias.
remove_references(node) == IF "asname" \in DOMAIN node THEN NameValue(node) ELSE node.name

\* The result of a handler of RemoveLogfuncDefAndImports: it warns nothing.
Removal(kind) == [NoResult EXCEPT !.kind = kind]

\* @m.leave(m.Import()) @m.leave(m.ImportFrom()) leave_import_statement, on
\* the top-level statement the traversal leaves next.
leave_import_statement ==
    /\ pc = "removing" /\ cursor <= Len(body) /\ body[cursor].kind = "import"
    /\ IF body[cursor] = ImportStar
       THEN /\ cursor' = cursor + 1
            /\ UNCHANGED <<body, logfuncs>>
       ELSE LET filtered == filter_import_aliases(body[cursor].names)
                referenced == {remove_references(filtered.discard[i]) :
                                  i \in DOMAIN filtered.discard}
            IN  /\ logfuncs' = replace_logfunc(replace_logfunc(logfuncs, filtered.added),
                                               referenced)
                /\ IF filtered.keep # <<>>
                   THEN /\ body' = [body EXCEPT ![cursor].names = filtered.keep]
                        /\ cursor' = cursor + 1
                   ELSE /\ body' = SubSeq(body, 1, cursor - 1)
                                       \o SubSeq(body, cursor + 1, Len(body))
                        /\ UNCHANGED cursor
    /\ last' = Removal("import")
    /\ UNCHANGED <<pc, open, logger_name, function_context, handled_exceptions,
                   excs_in_logfunc_call, string_varnames, postprocess, needed_imports,
                   global_statements, run, split_at_last_import, tree, stack>>

\* A variant of remove_logfunc that looks at top-level definitions only.
remove_logfunc_TopLevelOnly ==
    /\ pc = "removing" /\ cursor <= Len(body) /\ body[cursor].kind = "def"
    /\ IF body[cursor].name = logfunc
       THEN /\ logfuncs' = replace_logfunc(logfuncs, {remove_references(body[cursor])})
            /\ body' = SubSeq(body, 1, cursor - 1) \o SubSeq(body, cursor + 1, Len(body))
            /\ UNCHANGED cursor
       ELSE /\ cursor' = cursor + 1
            /\ UNCHANGED <<logfuncs, body>>
    /\ last' = Removal("FunctionDef")
    /\ UNCHANGED <<pc, open, logger_name, function_context, handled_exceptions,
                   excs_in_logfunc_call, string_varnames, postprocess, needed_imports,
                   global_statements, run, split_at_last_import, tree, stack>>

\* A variant of remove_logfunc that removes the definitions without telling
\* the command their name.
remove_logfunc_Unscheduled ==
    /\ pc = "removing" /\ cursor <= Len(body) /\ body[cursor].kind = "def"
    /\ IF body[cursor].name = logfunc
       THEN /\ body' = SubSeq(body, 1, cursor - 1) \o SubSeq(body, cursor + 1, Len(body))
            /\ UNCHANGED cursor
       ELSE /\ body' = [body EXCEPT ![cursor].inner =
                           SelectSeq(@, LAMBDA st : ~(st.kind = "def" /\ st.name = logfunc))]
            /\ cursor' = cursor + 1
    /\ last' = Removal("FunctionDef")
    /\ UNCHANGED <<pc, open, logger_name, logfuncs, function_context, handled_exceptions,
                   excs_in_logfunc_call, string_varnames, postprocess, needed_imports,
                   global_statements, run, split_at_last_import, tree, stack>>

\* @m.leave(m.FunctionDef()) remove_logfunc, on the top-level definition the
\* traversal leaves next and, before it, on the definitions in its body.
remove_logfunc ==
    /\ pc = "removing" /\ cursor <= Len(body) /\ body[cursor].kind = "def"
    /\ LET node == body[cursor]
           nested == {i \in DOMAIN node.inner :
                         node.inner[i].kind = "def" /\ node.inner[i].name = logfunc}
           referenced == {remove_references(node.inner[i]) : i \in nested}
       IN  IF node.name = logfunc
           THEN /\ logfuncs' = replace_logfunc(replace_logfunc(logfuncs, referenced),
                                               {remove_references(node)})
                /\ body' = SubSeq(body, 1, cursor - 1) \o SubSeq(body, cursor + 1, Len(body))
                /\ UNCHANGED cursor
           ELSE /\ logfuncs' = replace_logfunc(logfuncs, referenced)
                /\ body' = [body EXCEPT ![cursor].inner =
                               SelectSeq(@, LAMBDA st : ~(st.kind = "def" /\ st.name = logfunc))]
                /\ cursor' = cursor + 1
    /\ last' = Removal("FunctionDef")
    /\ UNCHANGED <<pc, open, logger_name, function_context, handled_exceptions,
                   excs_in_logfunc_call, string_varnames, postprocess, needed_imports,
                   global_statements, run, split_at_last_import, tree, stack>>

\* The traversal leaving a top-level statement no handler matches.
leave_statement ==
    /\ pc = "removing" /\ cursor <= Len(body)
    /\ body[cursor].kind \notin {"import", "def"}
    /\ cursor' = cursor + 1
    /\ last' = Removal("statement")
    /\ UNCHANGED <<pc, open, logger_name, logfuncs, function_context, handled_exceptions,
                   excs_in_logfunc_call, string_varnames, postprocess, needed_imports,
                   global_statements, body, run, split_at_last_import, tree, stack>>

\* CodemodBase.transform_module of a RemoveLogfuncDefAndImports whose
\* traversal is over, `autochain` being the class's AUTOCHAIN: super() finds
\* no import to add; with AUTOCHAIN the subclasses of CodemodBase whose key
\* the context holds are run in turn, AddGlobalStatements if statements were
\* scheduled, then the command, constructed with the shared context and the
\* default logger name, if names were added to its set.
remove_transform_module(autochain) ==
    /\ pc = "removing" /\ cursor > Len(body)
    /\ LET imported == AddImportsVisitor(needed_imports, body) IN
       IF autochain
       THEN /\ IF global_statements # <<>>
               THEN /\ body' = AddImportsVisitor(needed_imports,
                                                 leave_Module(global_statements, imported))
                    /\ global_statements' = <<>>
               ELSE /\ body' = imported
                    /\ UNCHANGED global_statements
            /\ IF logfuncs # {}
               THEN pc' = "start" /\ run' = run + 1
               ELSE pc' = "removed" /\ UNCHANGED run
            /\ last' = Removal("chained")
       ELSE /\ body' = imported
            /\ pc' = "removed"
            /\ last' = Removal("unchained")
            /\ UNCHANGED <<global_statements, run>>
    /\ UNCHANGED <<open, logger_name, logfuncs, function_context, handled_exceptions,
                   excs_in_logfunc_call, string_varnames, postprocess, needed_imports,
                   split_at_last_import, tree, cursor, stack>>

----------------------------------------------------------------------------
(* The explorations.  Each one traverses the modules of one family; the    *)
(* bounds on what a module holds are the guards of its next-state relation. *)

\* A call may take one more argument node.
Room(n) == OpenCallNodes(1) < n
\* An assignment to `target` in the current scope may be recorded.
MayRecord(target) ==
    <<target, CurrentScope>> \in Recorded \/ Cardinality(Recorded) < MaxAssigns

\* Spec: nested functions and handlers around calls of few arguments.
ScopeArgs == {StrNode(DoubleQuote, Lowercase_info), StrNode(DoubleQuote, INFO), NameNode("e")}

Next ==
    \/ \E defined \in BOOLEAN : check_global_scope_for_logger(defined)
    \/ StructuralDepth < MaxDepth /\ \E name \in FuncNames : push_function_onto_context(name)
    \/ pop_function_context
    \/ StructuralDepth < MaxDepth /\ \E name \in ExcNames \cup {""} : push_named_exception(name)
    \/ pop_named_exception
    \/ AtStatement /\ enter_logfunc_context("eprint")
    \/ InCall /\ Room(MaxCallNodes) /\ VisitAttributeCall(FormatCall(BracePair))
    \/ LeaveAttributeCall
    \/ Room(MaxCallNodes) /\ \E arg \in ScopeArgs : set_exc_context(arg)
    \/ \E resolved \in BOOLEAN : LeaveCall(resolved)
    \/ postprocess_assignment_nodes

Spec == Init /\ [][Next]_vars

\* SpecClassify: calls of many arguments at module scope, inside or outside
\* one handler that binds `e`, after assignments that register `file`/`File`;
\* an argument of eprint(...) may be a call str(...).
\* The bare name `e` is unrecognized outside a handler that binds it, `file`
\* and `File` until an assignment registers them.
ClassifyArgs ==
    {StrNode(DoubleQuote, t) : t \in {INFO, Lowercase_info}}
        \cup {NameNode(n) : n \in {"e", "file", "File"}}

NextClassify ==
    \/ \E defined \in BOOLEAN : check_global_scope_for_logger(defined)
    \/ open = <<>> /\ \E name \in ExcNames : push_named_exception(name)
    \/ pop_named_exception
    \/ \E target \in {"file", "File"}, text \in AssignLiterals :
           MayRecord(target) /\ record_string_assignment(target, DoubleQuote, text)
    \/ AtStatement /\ \E name \in Callees : enter_logfunc_context(name)
    \/ /\ InCall /\ Top.name = "eprint" /\ Len(open) = StructuralDepth + 1
       /\ Room(MaxArgs) /\ enter_logfunc_context("str")
    \/ Room(MaxArgs) /\ \E arg \in ClassifyArgs : set_exc_context(arg)
    \/ LeaveCall(TRUE)
    \/ postprocess_assignment_nodes

SpecClassify == Init /\ [][NextClassify]_vars

\* SpecConvert: calls whose first argument may be a .format() call on a literal
\* template or on a name, or the bare name `msg`, at module scope or inside
\* one function, inside or outside one handler that binds `e`, for either
\* logger name; inside the handler `e` may be an argument of the call.
FormatArgs == {NameNode("a"), NameNode("b")}
FormatCalls == {FormatCall(t) : t \in Templates} \cup {NameFormatCall("msg")}

InitConvert ==
    /\ \E name \in LoggerNames : Constructed(name)
    /\ body = <<>> /\ split_at_last_import = FALSE

NextConvert ==
    \/ \E defined \in BOOLEAN : check_global_scope_for_logger(defined)
    \/ open = <<>> /\ \E name \in FuncNames : push_function_onto_context(name)
    \/ pop_function_context
    \/ /\ AtStatement /\ handled_exceptions = {}
       /\ \E name \in ExcNames : push_named_exception(name)
    \/ pop_named_exception
    \/ \E text \in AssignLiterals :
           MayRecord("msg") /\ record_string_assignment("msg", DoubleQuote, text)
    \/ MayRecord("msg") /\ record_template_string_assignment("msg", "")
    \/ AtStatement /\ enter_logfunc_context("eprint")
    \/ /\ InCall /\ Top.kind = "Call" /\ Top.args = <<>>
       /\ \E node \in FormatCalls : VisitAttributeCall(node)
    \/ LeaveAttributeCall
    \/ /\ InCall /\ Top.kind = "Call" /\ Top.args = <<>>
       /\ set_exc_context(NameNode("msg"))
    \/ /\ InCall /\ Top.kind = "Call" /\ Room(MaxArgs)
       /\ set_exc_context(StrNode(DoubleQuote, INFO))
    \/ /\ InCall /\ Top.kind = "Call" /\ Room(MaxArgs) /\ handled_exceptions # {}
       /\ \E name \in handled_exceptions : set_exc_context(NameNode(name))
    \/ /\ InCall /\ Top.kind = "Format" /\ Len(Top.args) < MaxFormatArgs /\ Room(MaxArgs)
       /\ \E arg \in FormatArgs : set_exc_context(arg)
    \/ LeaveCall(TRUE)
    \/ postprocess_assignment_nodes

SpecConvert == InitConvert /\ [][NextConvert]_vars

\* SpecCalls: calls through eprint, str and obj.eprint at module scope, inside
\* or outside one handler that binds `e`; the first argument of a call to
\* eprint may itself be a call to eprint, str or obj.eprint, and every call
\* takes MaxCallNodes arguments at most.
NextCalls ==
    \/ check_global_scope_for_logger(FALSE)
    \/ open = <<>> /\ \E name \in ExcNames : push_named_exception(name)
    \/ pop_named_exception
    \/ /\ \/ AtStatement
          \/ /\ InCall /\ Top.kind = "Call" /\ Top.name \in logfuncs
             /\ Len(open) = StructuralDepth + 1 /\ Top.args = <<>>
       /\ \/ \E name \in Callees : enter_logfunc_context(name)
          \/ VisitAttributeCall(Node("AttrCall", "eprint", "obj", "", <<>>, <<>>, <<>>))
    \/ /\ InCall /\ Len(Top.args) < MaxCallNodes
       /\ \E arg \in ScopeArgs : set_exc_context(arg)
    \/ LeaveAttributeCall
    \/ LeaveCall(TRUE)
    \/ postprocess_assignment_nodes

SpecCalls == Init /\ [][NextCalls]_vars

\* SpecChain: whole invocations on modules of few top-level statements, the
\* traversal meeting one call in every statement that holds one,
\* eprint("info", "INFO"), the malformed eprint("info") or, after `msg = "{}"`,
\* eprint(msg.format(a), "INFO"), with either libcst and with statements
\* other transforms scheduled beforehand; then an invocation on the output.
Leadings == {<<>>, <<"blank">>, <<"comment">>}
TopStatements ==
    {Statement("docstring", "", <<>>, "")}
        \cup {Statement("import", name, <<>>, "") : name \in {"os", "logging"}}
        \cup {Statement("assign", "logger", <<>>, "")}
        \cup {Statement("other", "", leading, "") : leading \in Leadings}
        \cup {Statement("other", "eprint", <<>>, "")}
Modules ==
    UNION {{stmts \in [1..n -> TopStatements] :
               \A i \in 2..n : stmts[i].kind # "docstring"} : n \in 0..MaxBody}
ScheduledTexts == {<<"x", " = 1">>, <<"logger", " = logging.getLogger(__name__)">>}

InitChain ==
    /\ Constructed("logger")
    /\ body \in Modules
    /\ split_at_last_import \in BOOLEAN

NextChain ==
    \/ /\ Len(global_statements) < MaxScheduled
       /\ \E statement \in ScheduledTexts : add_global_statement(statement)
    \/ check_global_scope_for_logger(logger_name \in GlobalNames(body))
    \/ /\ AtStatement
       /\ \E i \in DOMAIN body : HoldsLogfuncCall(body[i])
       /\ enter_logfunc_context("eprint")
    \/ /\ AtStatement /\ string_varnames = <<>>
       /\ \E i \in DOMAIN body : body[i] = Statement("other", "", <<>>, "")
       /\ record_string_assignment("msg", DoubleQuote, BracePair)
    \/ /\ InCall /\ Top.kind = "Call" /\ Top.args = <<>>
       /\ set_exc_context(StrNode(DoubleQuote, Lowercase_info))
    \/ /\ InCall /\ Top.kind = "Call" /\ Top.args = <<>> /\ string_varnames # <<>>
       /\ VisitAttributeCall(NameFormatCall("msg"))
    \/ /\ InCall /\ Top.kind = "Format" /\ Top.args = <<>>
       /\ set_exc_context(NameNode("a"))
    \/ InCall /\ Top.kind = "Format" /\ Top.args # <<>> /\ LeaveAttributeCall
    \/ /\ InCall /\ Top.kind = "Call" /\ Len(Top.args) = 1
       /\ set_exc_context(StrNode(DoubleQuote, INFO))
    \/ /\ InCall /\ Top.kind = "Call"
       /\ \/ Len(Top.args) = 2
          \/ Len(Top.args) = 1 /\ Top.args[1].kind = "Str"
       /\ LeaveCall(TRUE)
    \/ /\ \A i \in DOMAIN body : ~HoldsLogfuncCall(body[i])
       /\ postprocess_assignment_nodes
    \/ super_transform_module
    \/ transform_module
    \/ run < MaxRuns /\ Reinvoke

SpecChain == InitChain /\ [][NextChain]_vars

\* SpecRemove: RemoveLogfuncDefAndImports on modules of one import statement
\* at most (the aliases eprint, eprint as ep, funcs.eprint as ep and gprint;
\* `import` and `from ... import` are handled alike), then definitions of
\* eprint and foo and calls of eprint, ep and print; with AUTOCHAIN the
\* command follows, each call it rewrites being eprint("info", "INFO") or
\* eprint("info", __file__, "INFO").
Aliases ==
    {ImportAlias(<<"eprint">>, "", FALSE), ImportAlias(<<"eprint">>, "ep", FALSE),
     ImportAlias(<<"funcs", "eprint">>, "ep", FALSE), ImportAlias(<<"gprint">>, "", FALSE)}
\* An alias list as the parser gives it: a comma after every alias but the last.
Separated(names) == [i \in DOMAIN names |-> [names[i] EXCEPT !.comma = (i < Len(names))]]
ImportStatements ==
    {ImportStar} \cup
        UNION {{Import(Separated(names)) : names \in [1..n -> Aliases]} : n \in 1..MaxAliases}
CallOf(name) == Statement("other", name, <<>>, "")
Definitions ==
    {FunctionDef("eprint", <<CallOf("print")>>),
     FunctionDef("foo", <<CallOf("print")>>),
     FunctionDef("foo", <<FunctionDef("eprint", <<>>), FunctionDef("bar", <<>>)>>)}
RemoveStatements == Definitions \cup {CallOf("eprint"), CallOf("ep")}
RemoveModules ==
    UNION {[1..n -> RemoveStatements] : n \in 0..MaxBody}
        \cup {<<st>> \o rest :
                  st \in ImportStatements,
                  rest \in UNION {[1..n -> RemoveStatements] : n \in 0..(MaxBody - 1)}}

InitRemove ==
    /\ pc = "removing"
    /\ tree \in RemoveModules
    /\ body = tree
    /\ cursor = 1
    /\ run = 0
    /\ logfuncs = {}
    /\ logger_name = "logger"
    /\ open = <<>>
    /\ function_context = <<>>
    /\ handled_exceptions = {}
    /\ excs_in_logfunc_call = <<>>
    /\ string_varnames = <<>>
    /\ postprocess = {}
    /\ needed_imports = {}
    /\ global_statements = <<>>
    /\ last = NoResult
    /\ split_at_last_import = FALSE
    /\ stack = ExceptionStack(<<>>)

\* The callee of the first call the command has yet to rewrite.
NextLogfuncCall ==
    body[CHOOSE i \in DOMAIN body :
             /\ HoldsLogfuncCall(body[i])
             /\ \A j \in 1..(i - 1) : ~HoldsLogfuncCall(body[j])].name

NextRemove ==
    \/ leave_import_statement
    \/ remove_logfunc
    \/ leave_statement
    \/ \E autochain \in BOOLEAN : remove_transform_module(autochain)
    \/ check_global_scope_for_logger(logger_name \in GlobalNames(body))
    \/ /\ AtStatement
       /\ \E i \in DOMAIN body : HoldsLogfuncCall(body[i])
       /\ enter_logfunc_context(NextLogfuncCall)
    \/ /\ InCall /\ Top.args = <<>>
       /\ set_exc_context(StrNode(DoubleQuote, Lowercase_info))
    \/ /\ InCall /\ Len(Top.args) = 1
       /\ set_exc_context(NameNode("__file__"))
    \/ /\ InCall /\ Top.args # <<>>
       /\ Len(Top.args) = 1 \/ Top.args[Len(Top.args)].kind = "Name"
       /\ set_exc_context(StrNode(DoubleQuote, INFO))
    \/ /\ InCall /\ Len(Top.args) >= 2
       /\ Top.args[Len(Top.args)].kind = "Str"
       /\ LeaveCall(TRUE)
    \/ /\ \A i \in DOMAIN body : ~HoldsLogfuncCall(body[i])
       /\ postprocess_assignment_nodes
    \/ super_transform_module
    \/ transform_module

SpecRemove == InitRemove /\ [][NextRemove]_vars

----------------------------------------------------------------------------
(* ExceptionStack (utils/exception_stack.py).  A task stands for what      *)
(* calling it does: it "returns" its value (its id), "raises" an Exception,*)
(* or "interrupts" with something `except Exception` lets through          *)
(* (KeyboardInterrupt, SystemExit).                                        *)

None == "None"

\* The exception task `task` raises, with the note join adds to it: the
\* number of results collected before it.
Noted(task, index) == [by |-> task.id, note |-> index]

\* An Exception raised by the body of the `with` block.
BodyException == [by |-> 0, note |-> -1]

\* join's loop with only the first task tried.
RECURSIVE join_loop_StopAtFirst(_, _)
join_loop_StopAtFirst(s, results) ==
    IF s.tasks = <<>>
    THEN [s EXCEPT !.results = results, !.raised = ""]
    ELSE LET task == Head(s.tasks)
             t == [s EXCEPT !.tasks = Tail(@), !.ran = Append(@, task)]
         IN  CASE task.does = "returns" ->
                      join_loop_StopAtFirst(t, Append(results, task.id))
               [] task.does = "raises" ->
                      [t EXCEPT !.exceptions = Append(@, Noted(task, Len(results))),
                                !.results = Append(results, None), !.raised = ""]
               [] OTHER -> [t EXCEPT !.results = <<>>, !.raised = "KeyboardInterrupt"]

\* join's loop: `while self.tasks` with the results collected so far.  A
\* task that raises past `except Exception` ends join with what it raised.
RECURSIVE join_loop(_, _)
join_loop(s, results) ==
    IF s.tasks = <<>>
    THEN [s EXCEPT !.results = results, !.raised = ""]
    ELSE LET task == Head(s.tasks)
             t == [s EXCEPT !.tasks = Tail(@), !.ran = Append(@, task)]
         IN  CASE task.does = "returns" -> join_loop(t, Append(results, task.id))
               [] task.does = "raises" ->
                      join_loop([t EXCEPT !.exceptions = Append(@, Noted(task, Len(results)))],
                                Append(results, None))
               [] OTHER -> [t EXCEPT !.results = <<>>, !.raised = "KeyboardInterrupt"]

\* Everything but the stack.
beside_stack == <<pc, open, logger_name, logfuncs, function_context, handled_exceptions,
                  excs_in_logfunc_call, string_varnames, postprocess, needed_imports,
                  global_statements, last, body, run, split_at_last_import, tree,
                  cursor>>

\* stack.map(func, args): one task per argument tuple, at the end of the queue.
map(tasks) ==
    /\ stack' = [stack EXCEPT !.tasks = @ \o tasks, !.called = "map",
                              !.results = <<>>, !.raised = ""]
    /\ UNCHANGED beside_stack

\* stack.join()
join ==
    /\ stack' = [join_loop(stack, <<>>) EXCEPT !.called = "join"]
    /\ UNCHANGED beside_stack

\* stack.resolve()
resolve ==
    /\ stack' = [stack EXCEPT !.called = "resolve", !.results = <<>>,
                              !.raised = IF stack.exceptions # <<>>
                                         THEN "ExceptionGroup" ELSE ""]
    /\ UNCHANGED beside_stack

\* `with stack as results:` -- __enter__ returns join(); the block is entered
\* unless join raised.
enter ==
    /\ ~stack.inside
    /\ LET joined == join_loop(stack, <<>>)
       IN  stack' = [joined EXCEPT !.called = "__enter__", !.inside = joined.raised = ""]
    /\ UNCHANGED beside_stack

\* __exit__(exc_type, exc_val, traceback) at the end of the block, exc_val
\* what the body raised: None, an Exception, or a KeyboardInterrupt.  What
\* leaves the `with` statement is resolve's ExceptionGroup or, __exit__
\* returning None, what the body raised.
exit(exc_val) ==
    /\ stack.inside
    /\ LET exceptions == IF exc_val = "Exception"
                         THEN Append(stack.exceptions, BodyException)
                         ELSE stack.exceptions
       IN  stack' = [stack EXCEPT !.exceptions = exceptions, !.called = "__exit__",
                                  !.results = <<>>, !.inside = FALSE,
                                  !.raised = IF exceptions # <<>> THEN "ExceptionGroup"
                                             ELSE IF exc_val = None THEN "" ELSE exc_val]
    /\ UNCHANGED beside_stack

\* The lists of at most n tasks explored, each task [id, does]: its number
\* in the order the tasks are handed to the stack, on from `from`, and what
\* calling it does.
TaskLists(n, from) ==
    UNION {{[i \in 1..k |-> [id |-> from + i, does |-> does[i]]] :
                does \in [1..k -> {"returns", "raises", "interrupts"}]} : k \in 0..n}

\* What the body of the block raises.
ExcVals == {None, "Exception", "KeyboardInterrupt"}

InitStack ==
    /\ pc = "start"
    /\ open = <<>>
    /\ logger_name = "logger"
    /\ logfuncs = {}
    /\ function_context = <<>>
    /\ handled_exceptions = {}
    /\ excs_in_logfunc_call = <<>>
    /\ string_varnames = <<>>
    /\ postprocess = {}
    /\ needed_imports = {}
    /\ global_statements = <<>>
    /\ last = NoResult
    /\ body = <<>> /\ run = 0 /\ split_at_last_import = FALSE
    /\ tree = <<>> /\ cursor = 0
    /\ \E tasks \in TaskLists(MaxTasks, 0) : stack = ExceptionStack(tasks)

\* The tasks ever handed to the stack are MaxTasks at most, and so are the
\* exceptions it holds.
NextStack ==
    \/ LET scheduled == Len(stack.ran) + Len(stack.tasks)
       IN  \E tasks \in TaskLists(MaxTasks - scheduled, scheduled) :
               tasks # <<>> /\ map(tasks)
    \/ join
    \/ resolve
    \/ enter
    \/ \E exc_val \in ExcVals :
           /\ exc_val = "Exception" => Len(stack.exceptions) < MaxTasks
           /\ exit(exc_val)

SpecStack == InitStack /\ [][NextStack]_vars

----------------------------------------------------------------------------
(* What the claims speak of, read off the tree rather than off the         *)
(* command's own bookkeeping.                                              *)

\* The names bound with `as` by the except handlers around the position.
LexicallyHandled ==
    {open[i].name : i \in {j \in DOMAIN open :
                              open[j].kind = "ExceptHandler" /\ open[j].name # ""}}

\* The names of the function definitions around the position, outermost first.
EnclosingNames == [i \in DOMAIN EnclosingFunctions |-> EnclosingFunctions[i].name]

RECURSIVE JoinLocals(_)
\* "a.<locals>.b.<locals>.c" for <<a, b, c>>.
JoinLocals(names) ==
    IF Len(names) = 1 THEN <<names[1]>>
    ELSE JoinLocals(SubSeq(names, 1, Len(names) - 1)) \o <<".<locals>.", names[Len(names)]>>

RECURSIVE NameRefs(_, _)
\* Bare-name arguments naming one of `names` in the subtrees of `args`,
\* outside nested calls to a known log function.
NameRefs(args, names) ==
    IF args = <<>> THEN 0
    ELSE LET a == Head(args)
             here == IF a.kind = "Name" THEN (IF a.name \in names THEN 1 ELSE 0)
                     ELSE IF a.kind = "Call" /\ a.name \in logfuncs THEN 0
                     ELSE NameRefs(a.args, names)
         IN  here + NameRefs(Tail(args), names)

\* The handler that ran last was change_logfunc_to_logger on a call to a known
\* log function.
LastIsLogCall == last.call.kind = "Call" /\ last.call.name \in logfuncs

\* That call classified without error.  (The registry and the handled set
\* are as they were when the call was left.)
LastClassified == LastIsLogCall /\ get_logfunc_arguments(last.call, last.pos).error = NoError

ErrorIn(label) == StrNode(DoubleQuote, <<"Error in function: ">> \o label)

\* The exception replacement with the "UNKNOWN" label and its warning.
LastIsUnknownFallback ==
    /\ EnclosingFunctions # <<>>
    /\ last.out = LoggerCall(logger_name, <<"exception">>, <<ErrorIn(<<"UNKNOWN">>)>>, TRUE)
    /\ \E i \in DOMAIN last.warnings :
           last.warnings[i] = AtNode(UnknownQualifiedName, 0, last.pos)

LastReferencesHandled == LastClassified /\ NameRefs(last.call.args, handled_exceptions) > 0

\* Arguments as the claims sort them.
IsLevelLiteral(a) == a.kind = "Str" /\ a.lit \in LOGLEVELS
IsFileName(a) == a.kind = "Name" /\ a.name \in {"file", "File"}
IsHandledName(a) == a.kind = "Name" /\ a.name \in handled_exceptions
IsMessageCandidate(a) ==
    \/ a.kind = "Str" /\ ~IsLevelLiteral(a)
    \/ a.kind = "Format"
    \/ a.kind = "Name" /\ a.name \in DOMAIN string_varnames /\ ~IsFileName(a)

LevelCount(args) == Cardinality({i \in DOMAIN args : IsLevelLiteral(args[i])})
Candidates(args) == {i \in DOMAIN args : IsMessageCandidate(args[i])}
\* The chosen message: the first candidate.
MessageIndex(args) == CHOOSE i \in Candidates(args) : \A j \in Candidates(args) : i <= j

\* The unrecognized arguments: neither the level, nor the chosen message, nor
\* the bare name file/File, nor a bare name in the handled set.
Unrecognized(args) ==
    {i \in DOMAIN args :
        /\ ~IsLevelLiteral(args[i])
        /\ ~(Candidates(args) # {} /\ i = MessageIndex(args))
        /\ ~IsFileName(args[i])
        /\ ~IsHandledName(args[i])}

\* The warnings of the last handler that count unrecognized arguments.
CountWarnings == {i \in DOMAIN last.warnings : last.warnings[i].msg = UnrecognizedWarning}
WarnedCount ==
    IF CountWarnings = {} THEN 0 ELSE last.warnings[CHOOSE i \in CountWarnings : TRUE].count

\* A template in which every brace belongs to a bare "{}".
OnlyBarePlaceholders(t) ==
    \A i \in DOMAIN t :
        /\ t[i] = "{" => (i < Len(t) /\ t[i + 1] = "}")
        /\ t[i] = "}" => (i > 1 /\ t[i - 1] = "{")
OpenBraces(t) == Cardinality({i \in DOMAIN t : t[i] = "{"})
\* "%s" tokens of a printf template.
PercentS(t) == Cardinality({i \in DOMAIN t : t[i] = "%" /\ i < Len(t) /\ t[i + 1] = "s"})
\* A replacement field other than the bare "{}".
HasRichField(t) == \E i \in DOMAIN t : t[i] = "{" /\ ~(i < Len(t) /\ t[i + 1] = "}")

\* The last call's message is <literal template>.format(...), its first
\* argument, and the call has one level literal.
LastIsInlineTemplate ==
    /\ LastIsLogCall
    /\ last.call.args # <<>>
    /\ last.call.args[1].kind = "Format" /\ last.call.args[1].base = "Str"
    /\ LevelCount(last.call.args) = 1
LastTemplate == last.call.args[1].lit
LastFormatArgs == last.call.args[1].args
LastLevel == last.call.args[CHOOSE i \in DOMAIN last.call.args : IsLevelLiteral(last.call.args[i])].lit

----------------------------------------------------------------------------
(* The claims.                                                             *)

C3_HandledIffLexicallyBound == InCall => handled_exceptions = LexicallyHandled

\* C4: the function-context stack is the sequence of function definitions
\* around the traversal's position, outermost first, and it is empty when the
\* traversal has ended.
C4_ContextIsEnclosingFunctions ==
    /\ function_context = EnclosingFunctions
    /\ pc = "done" => function_context = <<>>

\* C4's case: a call site inside a function nested in another.
C4_Witness ==
    /\ InCall /\ Top.kind = "Call" /\ Top.args # <<>>
    /\ Len(function_context) = 2
    /\ function_context[1].name = "foo"

C2_BareTemplateConverts ==
    (/\ LastIsInlineTemplate
     /\ OnlyBarePlaceholders(LastTemplate)
     /\ OpenBraces(LastTemplate) = Len(LastFormatArgs)
     /\ NameRefs(last.call.args, handled_exceptions) = 0) =>
        /\ last.kind = "normal"
        /\ last.out = LoggerCall(logger_name, Lower(LastLevel),
                                 <<repr(ReplaceBraces(LastTemplate))>> \o LastFormatArgs, FALSE)
        /\ PercentS(last.out.args[1].lit) = OpenBraces(LastTemplate)

\* C6: a call to a known log function with two or more level literals raises
\* LogFuncReplaceException "Multiple loglevels in logfunc call" and is not replaced.
C6_MultipleLoglevelsRaises ==
    (LastIsLogCall /\ LevelCount(last.call.args) >= 2) =>
        /\ last.kind = "raised"
        /\ last.error.type = "LogFuncReplaceException"
        /\ last.error.msg = MultipleLoglevels

\* C7, as stated: a call to a known log function with no message candidate or
\* no level literal raises "Malformed logfunc call" and is not replaced.
C7_MissingPartIsMalformed ==
    (LastIsLogCall /\ (Candidates(last.call.args) = {} \/ LevelCount(last.call.args) = 0)) =>
        /\ last.kind = "raised"
        /\ last.error = raise_at_node(last.pos, MalformedCall)

\* C7, amended: a call to a known log function with at most one level literal
\* and with no message candidate or no level literal raises "Malformed
\* logfunc call" at the call's position and is not replaced; a lowercase
\* "info" is no level.
C7_MissingPartIsMalformedUnlessTwoLevels ==
    (/\ LastIsLogCall
     /\ LevelCount(last.call.args) <= 1
     /\ (Candidates(last.call.args) = {} \/ LevelCount(last.call.args) = 0)) =>
        /\ last.kind = "raised"
        /\ last.error = raise_at_node(last.pos, MalformedCall)
        /\ last.out = NoOut

\* C7's case: a call whose only string is "info" is rejected as malformed.
C7_Witness ==
    /\ LastIsLogCall
    /\ \E i \in DOMAIN last.call.args : last.call.args[i] = StrNode(DoubleQuote, Lowercase_info)
    /\ LevelCount(last.call.args) = 0
    /\ last.kind = "raised"
    /\ last.error.msg = MalformedCall

\* C8: a call with a level, a message and k >= 1 unrecognized arguments is
\* replaced, with exactly one warning that names k and the call's position,
\* and the traversal goes on.
C8_UnrecognizedOnlyWarn ==
    (/\ LastIsLogCall
     /\ LevelCount(last.call.args) = 1
     /\ Candidates(last.call.args) # {}
     /\ Unrecognized(last.call.args) # {}) =>
        /\ last.kind \in {"normal", "exception"}
        /\ Cardinality(CountWarnings) = 1
        /\ \A i \in CountWarnings :
               last.warnings[i] =
                   AtNode(UnrecognizedWarning, Cardinality(Unrecognized(last.call.args)), last.pos)
        /\ pc = "running"

\* C9: the classifier counts exactly the arguments that are neither the
\* level, nor the chosen message, nor the bare name file/File, nor a bare
\* name in the handled set.
C9_CountsOnlyOtherArguments ==
    (LastIsLogCall /\ LevelCount(last.call.args) <= 1) =>
        WarnedCount = Cardinality(Unrecognized(last.call.args))

\* C10: a call without handled-exception reference whose message is
\* T.format(a1, ..., an), n >= 1, T holding a replacement field other than
\* "{}", raises LogFuncReplaceException and leaves no replacement.
C10_RichFieldRaises ==
    (/\ LastIsInlineTemplate
     /\ LastFormatArgs # <<>>
     /\ HasRichField(LastTemplate)
     /\ NameRefs(last.call.args, handled_exceptions) = 0) =>
        /\ last.kind = "raised"
        /\ last.error.type = "LogFuncReplaceException"

\* Occurrences of the bare placeholder "{}" in a template.
BracePairs(t) == Cardinality({i \in DOMAIN t : t[i] = "{" /\ i < Len(t) /\ t[i + 1] = "}"})

\* C11: a call without handled-exception reference whose message is
\* T.format(a1, ..., an), the number of "{}" in T differing from n (n = 0
\* included), is fatal: the handler raises and leaves no replacement.
C11_ArityMismatchRaises ==
    (/\ LastIsInlineTemplate
     /\ BracePairs(LastTemplate) # Len(LastFormatArgs)
     /\ NameRefs(last.call.args, handled_exceptions) = 0) =>
        /\ last.kind = "raised"
        /\ last.out = NoOut

\* The last call's message is <name>.format(a1, ..., an), n >= 1, its first
\* argument, the name bound by a recorded plain string-literal assignment of
\* the scope the call is in, and the call has one level literal.
LastIsNamedTemplate ==
    /\ LastIsLogCall
    /\ last.call.args # <<>>
    /\ last.call.args[1].kind = "Format" /\ last.call.args[1].base = "Name"
    /\ last.call.args[1].args # <<>>
    /\ <<last.call.args[1].name, CurrentScope>> \in Recorded
    /\ string_varnames[last.call.args[1].name][CurrentScope].kind = "Assign"
    /\ LevelCount(last.call.args) = 1
LastTemplateName == last.call.args[1].name

\* C12: after `msg = T`, T a plain literal, a call eprint(msg.format(a1, ...,
\* an), LEVEL) of the same scope without handled-exception reference becomes
\* <logger>.<level>(msg, a1, ..., an), the name kept as template argument, the
\* assignment is scheduled, and at module exit every scheduled assignment is
\* rewritten to hold T with each "{}" turned into "%s".
C12_NamedTemplateDeferred ==
    /\ (LastIsNamedTemplate /\ NameRefs(last.call.args, handled_exceptions) = 0) =>
          /\ last.kind = "normal"
          /\ last.out = LoggerCall(logger_name, Lower(LastLevel),
                                   <<NameNode(LastTemplateName)>> \o LastFormatArgs, FALSE)
          /\ string_varnames[LastTemplateName][CurrentScope] \in postprocess
    /\ pc = "done" =>
          \A node \in postprocess :
              \E pair \in last.converted :
                  /\ pair[1] = node
                  /\ pair[2].kind = "Assign" /\ pair[2].name = node.name
                  /\ pair[2].lit = ReplaceBraces(node.lit)

\* The last call's message is the bare name `msg`, its first argument, bound
\* by a recorded `msg = T.format(...)` of the scope the call is in, and the
\* call has one level literal.
LastIsFormattedName ==
    /\ LastIsLogCall
    /\ last.call.args # <<>>
    /\ last.call.args[1].kind = "Name"
    /\ <<last.call.args[1].name, CurrentScope>> \in Recorded
    /\ string_varnames[last.call.args[1].name][CurrentScope] = NoNode
    /\ LevelCount(last.call.args) = 1

\* C13: after `msg = T.format(...)`, a call eprint(msg, LEVEL) of the same
\* scope without handled-exception reference becomes <logger>.<level>(msg),
\* and nothing but plain string-literal assignments is ever scheduled for
\* postprocessing.
C13_FormattedNamePassedThrough ==
    /\ (LastIsFormattedName /\ NameRefs(last.call.args, handled_exceptions) = 0) =>
          /\ last.kind = "normal"
          /\ last.out = LoggerCall(logger_name, Lower(LastLevel),
                                   <<last.call.args[1]>>, FALSE)
    /\ \A node \in postprocess : node.kind = "Assign"

\* Bare-name arguments whose name the string-variable registry does not hold.
UnrecordedNames(args) ==
    {i \in DOMAIN args : args[i].kind = "Name" /\ args[i].name \notin DOMAIN string_varnames}

\* C14: a call to a known log function whose would-be message is a bare name
\* the registry does not hold, there being no other message candidate, is
\* fatal and not replaced: with at most one level literal it raises "Malformed
\* logfunc call" at the call's position.
C14_UnrecordedNameRaises ==
    (/\ LastIsLogCall
     /\ UnrecordedNames(last.call.args) # {}
     /\ Candidates(last.call.args) = {}) =>
        /\ last.kind = "raised"
        /\ last.out = NoOut
        /\ pc = "aborted"
        /\ LevelCount(last.call.args) <= 1 =>
               last.error = raise_at_node(last.pos, MalformedCall)

\* C14's case: a call with one level whose only other argument is the bare
\* name `e`, neither recorded nor bound by a handler, is rejected.
C14_Witness ==
    /\ LastIsLogCall
    /\ Len(last.call.args) = 2
    /\ LevelCount(last.call.args) = 1
    /\ \E i \in DOMAIN last.call.args : last.call.args[i] = NameNode("e")
    /\ "e" \notin handled_exceptions
    /\ "e" \notin DOMAIN string_varnames
    /\ last.kind = "raised"
    /\ last.error.msg = MalformedCall

\* Arguments that are calls of a bare-name callee, such as str(obj).
PlainCalls(args) == {i \in DOMAIN args : args[i].kind = "Call"}

\* C15: a call to a known log function with one level literal, without
\* handled-exception reference, whose message is a call expression other than
\* .format(), such as str(obj), becomes <logger>.<level>(<that expression>)
\* and raises nothing.
C15_PlainCallPassedThrough ==
    (/\ LastIsLogCall
     /\ Len(last.call.args) = 2
     /\ LevelCount(last.call.args) = 1
     /\ PlainCalls(last.call.args) # {}
     /\ NameRefs(last.call.args, handled_exceptions) = 0) =>
        /\ last.kind = "normal"
        /\ last.error = NoError
        /\ last.out = LoggerCall(logger_name, Lower(LastLevel),
                                 <<last.call.args[CHOOSE i \in PlainCalls(last.call.args) : TRUE]>>,
                                 FALSE)

\* C16: when the module's global scope binds the logger name, the step that
\* leaves module entry raises LogFuncReplaceException with no node open and
\* schedules neither a global statement nor an import, and nothing runs after
\* it: the error is raised once and no call is visited or rewritten.
C16_CollisionRaisesAtEntry ==
    [][/\ (pc = "start" /\ logger_name \in GlobalNames(body) /\ pc' # "start") =>
            /\ pc' = "aborted"
            /\ last'.kind = "raised"
            /\ last'.error.type = "LogFuncReplaceException"
            /\ open' = <<>>
            /\ UNCHANGED <<global_statements, needed_imports, body>>
       /\ pc # "aborted"]_vars

\* C16's case: the first invocation stopped at the entry of a module that
\* binds `logger`.
C16_Witness ==
    /\ run = 1
    /\ pc = "aborted"
    /\ logger_name \in GlobalNames(body)
    /\ last.error.msg = "Module scope already contains the name"

\* C17: the second invocation, on the output of a first one that returned
\* with the import and the logger declaration in the module, raises nothing
\* and returns the module with nothing inserted.
C17_SecondRunIsNoOp ==
    (/\ run = 2
     /\ "logging" \in GlobalNames(body)
     /\ logger_name \in GlobalNames(body)) =>
        /\ pc \notin {"aborted", "hung"}
        /\ pc = "returned" => \A i \in DOMAIN body : body[i].by = ""

\* The statements of a module that AddGlobalStatements inserted for `text`.
InsertedCopies(stmts, text) ==
    {i \in DOMAIN stmts : stmts[i] = [parse_statement(text) EXCEPT !.leading = stmts[i].leading]}

\* C18: when the chain drains the scheduled global statements, the module it
\* returns holds exactly one inserted copy of each scheduled text, however
\* many times the text was scheduled.
C18_ScheduledOnceInserted ==
    [][(pc = "imported" /\ pc' = "returned") =>
          \A k \in DOMAIN global_statements :
              Cardinality(InsertedCopies(body', global_statements[k])) = 1]_vars

\* Where the statements AddGlobalStatements inserted stand in a module, and
\* the module without them.
Group(out) == {i \in DOMAIN out : out[i].by = "AddGlobalStatements"}
Originals(out) == SelectSeq(out, LAMBDA st : st.by # "AddGlobalStatements")
StartsBlank(st) == st.leading # <<>> /\ st.leading[1] = "blank"
\* The statement `was` is still there as `is`, at most a blank line put before it.
Retained(was, is) ==
    /\ is.kind = was.kind /\ is.name = was.name /\ is.by = was.by
    /\ is.leading = was.leading \/ is.leading = <<"blank">> \o was.leading

\* What C19 says of the group wherever it stands: `out` holds the k >= 1
\* statements of `scheduled` as one run, in scheduling order, a blank line
\* before the first of them and before the statement after them, and holds
\* every statement of `stmts`, in order.
GroupInserted(stmts, out, scheduled) ==
    LET k == Len(scheduled)
        first == CHOOSE i \in Group(out) : \A j \in Group(out) : i <= j
    IN  /\ Group(out) # {}
        /\ Group(out) = first..(first + k - 1)
        /\ \A j \in 1..k :
               /\ out[first + j - 1].kind = "assign"
               /\ out[first + j - 1].name = scheduled[j][1]
        /\ StartsBlank(out[first])
        /\ first + k <= Len(out) => StartsBlank(out[first + k])
        /\ Len(Originals(out)) = Len(stmts)
        /\ \A i \in DOMAIN stmts : Retained(stmts[i], Originals(out)[i])

\* The step in which the chain runs AddGlobalStatements.
DrainsGlobals == pc = "imported" /\ pc' = "returned" /\ global_statements # <<>>

InsertedImports(stmts) == {i \in DOMAIN stmts : stmts[i].by = "AddImportsVisitor"}

\* C20, as stated: the deferred edits are drained in the order imports,
\* global statements, postprocessing edits; so when the postprocessing edits
\* of the recorded assignments have just been applied, the scheduled imports
\* are in the module and the scheduled global statements have been drained.
C20_ImportsGlobalsPostprocess ==
    (last.kind = "module" /\ last.converted # {}) =>
        /\ needed_imports \subseteq GlobalNames(body)
        /\ global_statements = <<>>

\* C20, amended: the postprocessing edits are applied first, by the step that
\* leaves the Module node, which inserts nothing; the next step applies the
\* imports and inserts no global statement; the step after it inserts every
\* scheduled global statement, empties their list and inserts no import; and
\* no other step of an invocation inserts, removes or moves a statement of
\* the module (it at most replaces the call a statement holds), so each list
\* is drained once.
C20_PostprocessImportsGlobals ==
    [][/\ last'.kind = "module" =>
              /\ pc = "running" /\ pc' = "done"
              /\ last'.converted = {<<node, convert_format(node)>> : node \in postprocess}
              /\ UNCHANGED <<body, needed_imports, global_statements>>
       /\ pc = "done" =>
              /\ pc' = "imported"
              /\ needed_imports \subseteq GlobalNames(body')
              /\ Cardinality(InsertedImports(body')) <= 1
              /\ Group(body') = {}
              /\ UNCHANGED global_statements
       /\ pc = "imported" =>
              /\ pc' = "returned"
              /\ Cardinality(Group(body')) = Len(global_statements)
              /\ global_statements' = <<>>
              /\ Cardinality(InsertedImports(body')) = Cardinality(InsertedImports(body))
       /\ (run' = run /\ pc \notin {"done", "imported"}) =>
              /\ Len(body') = Len(body)
              /\ \A i \in DOMAIN body : [body'[i] EXCEPT !.name = body[i].name] = body[i]]_vars

\* C20's case: an invocation returned after it rewrote an assignment,
\* inserted the import and inserted a global statement.
C20_Witness ==
    /\ pc = "returned" /\ run = 1
    /\ postprocess # {}
    /\ InsertedImports(body) # {}
    /\ Group(body) # {}

\* The statements of a module whose call goes through the logger, the
\* declaration the command schedules, and how often a text stands in a list
\* of scheduled statements.
RewrittenCalls(stmts) == {i \in DOMAIN stmts : stmts[i].kind = "other" /\ stmts[i].name = logger_name}
LoggerDeclaration == <<logger_name, " = logging.getLogger(__name__)">>
Copies(scheduled, text) == Cardinality({k \in DOMAIN scheduled : scheduled[k] = text})

C22_ConfiguredLoggerEverywhere ==
    /\ (LastIsLogCall /\ last.kind = "normal") =>
           /\ last.out.obj = logger_name
           /\ last.out.attr = Lower(LastLevel)
    /\ (LastIsLogCall /\ last.kind = "exception") =>
           /\ last.out.obj = logger_name
           /\ last.out.attr = <<"exception">>
    /\ pc = "running" => Copies(global_statements, LoggerDeclaration) >= 1

\* The message argument as the normal replacement carries it: a literal in
\* Python's repr, a name as it is.
Carried(arg) == IF arg.kind = "Str" THEN repr(literal_eval(arg)) ELSE arg

Bare(names) == [i \in DOMAIN names |-> [names[i] EXCEPT !.comma = FALSE]]
Without(stmts, i) == SubSeq(stmts, 1, i - 1) \o SubSeq(stmts, i + 1, Len(stmts))
IsLogfuncAlias(alias) == alias.name[Len(alias.name)] = logfunc

\* C24: the traversal of RemoveLogfuncDefAndImports, leaving an import
\* statement, leaves a star import as it is; otherwise it removes exactly the
\* aliases whose last dotted component is the log-function name and keeps
\* the others in their order, a comma after each but the last; when no alias
\* is left the statement goes; and no other statement changes.
C24_ImportAliasesFiltered ==
    [][(pc = "removing" /\ cursor <= Len(body) /\ body[cursor].kind = "import") =>
          LET names == body[cursor].names
              kept == SelectSeq(names, LAMBDA alias : ~IsLogfuncAlias(alias))
          IN  IF body[cursor] = ImportStar
              THEN body' = body
              ELSE IF kept = <<>>
              THEN body' = Without(body, cursor)
              ELSE /\ body' = [body EXCEPT ![cursor] = body'[cursor]]
                   /\ body'[cursor] = [body[cursor] EXCEPT !.names = body'[cursor].names]
                   /\ Bare(body'[cursor].names) = Bare(kept)
                   /\ \A i \in DOMAIN kept :
                          body'[cursor].names[i].comma = (i < Len(kept))]_vars

\* C24's case: of three aliases the last was the log function's and went,
\* and the second, now the last, lost its comma.
C24_Witness ==
    /\ last.kind = "import"
    /\ tree # <<>> /\ body # <<>>
    /\ Len(tree[1].names) = 3 /\ IsLogfuncAlias(tree[1].names[3])
    /\ Len(body[1].names) = 2 /\ ~body[1].names[2].comma

\* The name calls in the module go through for an imported alias.
UsedName(alias) == IF alias.asname # "" THEN alias.asname ELSE alias.name[Len(alias.name)]

\* C25: when the traversal of RemoveLogfuncDefAndImports removes an import
\* alias or a definition of the log function, the name the module's calls
\* use for it (the name after `as` if there is one, else the imported or
\* defined name) is in the command's set of known names afterwards.
C25_UsedNameBecomesKnown ==
    [][(pc = "removing" /\ cursor <= Len(body)) =>
          /\ body[cursor].kind = "import" =>
                 \A i \in DOMAIN body[cursor].names :
                     IsLogfuncAlias(body[cursor].names[i]) =>
                         UsedName(body[cursor].names[i]) \in logfuncs'
          /\ (body[cursor].kind = "def" /\ body[cursor].name = logfunc) =>
                 logfunc \in logfuncs']_vars

\* A module's statements other than imports, and a list of statements with
\* every definition of the log function taken out, at the top and inside the
\* definitions that stay.
NotImports(stmts) == SelectSeq(stmts, LAMBDA st : st.kind # "import")
IsLogfuncDef(st) == st.kind = "def" /\ st.name = logfunc
WithoutLogfuncDefs(stmts) ==
    LET top == SelectSeq(stmts, LAMBDA st : ~IsLogfuncDef(st))
    IN  [i \in DOMAIN top |->
            [top[i] EXCEPT !.inner = SelectSeq(@, LAMBDA st : ~IsLogfuncDef(st))]]

\* C26: RemoveLogfuncDefAndImports run without autochaining returns the
\* module with every definition of the log function removed, wherever it
\* stands, and with every other definition and every call outside the removed
\* definitions as it was, calls of the removed function included; the command
\* is not run, and no handler of the transform warns.
C26_OnlyLogfuncDefsRemoved ==
    /\ (pc = "removed" /\ last.kind = "unchained") =>
           /\ NotImports(body) = WithoutLogfuncDefs(NotImports(tree))
           /\ run = 0
    /\ pc \in {"removing", "removed"} => last.warnings = <<>>

\* C26's case: the module defined the log function and called it; without
\* autochaining the definition is gone and the call is still there.
C26_Witness ==
    /\ pc = "removed" /\ last.kind = "unchained"
    /\ \E i \in DOMAIN tree : IsLogfuncDef(tree[i])
    /\ \E i \in DOMAIN tree : tree[i].kind = "def" /\ tree[i].name = "foo"
    /\ \E i \in DOMAIN body : body[i] = CallOf(logfunc)
    /\ \A i \in DOMAIN body : ~IsLogfuncDef(body[i])

\* The module given to RemoveLogfuncDefAndImports defines the log function,
\* at the top or inside another definition, and the calls of it at the top.
DefinesLogfunc ==
    \E i \in DOMAIN tree :
        \/ IsLogfuncDef(tree[i])
        \/ \E k \in DOMAIN tree[i].inner : IsLogfuncDef(tree[i].inner[k])
LogfuncCalls(stmts) == {i \in DOMAIN stmts : stmts[i] = CallOf(logfunc)}

\* C27: RemoveLogfuncDefAndImports with AUTOCHAIN on a module that defines
\* the log function: its transform_module goes on to run the command, which
\* neither aborts nor hangs and runs once; the module returned holds no
\* definition and no call of the log function, every call of it having
\* become a logger call; the scheduled declaration is inserted once and its
\* list is empty again, as is the command's set; and when the module called
\* the function, `import logging` is inserted once.
C27_AutochainRewritesModule ==
    DefinesLogfunc =>
        /\ pc \notin {"aborted", "hung"}
        /\ run <= 1
        /\ last.kind = "chained" => pc = "start" /\ run = 1
        /\ pc = "returned" =>
               /\ WithoutLogfuncDefs(body) = body
               /\ LogfuncCalls(body) = {}
               /\ Cardinality(RewrittenCalls(body)) = Cardinality(LogfuncCalls(tree))
               /\ Cardinality(InsertedCopies(body, LoggerDeclaration)) = 1
               /\ global_statements = <<>> /\ logfuncs = {}
               /\ LogfuncCalls(tree) # {} => Cardinality(InsertedImports(body)) = 1

\* C27's case: the module defined the log function and called it twice; the
\* chain returned it with both calls rewritten and one import and one
\* declaration inserted.
C27_Witness ==
    /\ pc = "returned" /\ DefinesLogfunc
    /\ Cardinality(LogfuncCalls(tree)) = 2
    /\ Cardinality(RewrittenCalls(body)) = 2
    /\ Cardinality(InsertedImports(body)) = 1
    /\ Cardinality(InsertedCopies(body, LoggerDeclaration)) = 1

\* C28: when a handler raises, the invocation is over: the error is the
\* handler's result, no later step of the transform follows, so the module
\* is never handed on or returned; and a module that is returned holds no
\* call of a known log function that was left as it was.
C28_FatalErrorAbortsModule ==
    [][/\ last'.kind = "raised" => pc' = "aborted" /\ last'.error # NoError
       /\ pc = "aborted" => pc' = "aborted" /\ last' = last /\ body' = body
       /\ (pc' = "returned" /\ run' = 1) =>
              \A i \in DOMAIN body' : ~(body'[i].kind = "other" /\ body'[i].name = "eprint")]_vars

\* C28's case: the second call of the module was malformed and raised after
\* the first had been rewritten.
C28_Witness ==
    /\ pc = "aborted" /\ last.kind = "raised"
    /\ last.error.type = "LogFuncReplaceException"
    /\ RewrittenCalls(body) # {}
    /\ \E i \in DOMAIN body : HoldsLogfuncCall(body[i])

\* The replacement r carries the "UNKNOWN" label.
LabelledUnknown(r) == r.out.args = <<ErrorIn(<<"UNKNOWN">>)>>

\* The handler that produced r warned, at the call's position, that no
\* qualified name was found.
WarnedUnknown(r) ==
    \E i \in DOMAIN r.warnings : r.warnings[i] = AtNode(UnknownQualifiedName, 0, r.pos)

Entry(task) == IF task.does = "returns" THEN task.id ELSE None

\* The exceptions of the tasks that raise, in task order, each noted with its
\* place in the queue.
RECURSIVE Failures(_, _)
Failures(tasks, i) ==
    IF i > Len(tasks) THEN <<>>
    ELSE (IF tasks[i].does = "raises" THEN <<Noted(tasks[i], i - 1)>> ELSE <<>>)
             \o Failures(tasks, i + 1)

\* No task of the queue raises past `except Exception`.
Catchable(tasks) == \A i \in DOMAIN tasks : tasks[i].does # "interrupts"

\* C30: join (and __enter__, which returns join()) calls every queued task
\* once, first in first out, whether or not earlier tasks raised an
\* Exception; it returns one entry per task, the task's value or None where
\* the task raised; it appends one exception per failed task, in task order,
\* and leaves the queue empty.  resolve raises the ExceptionGroup if and only
\* if an exception is recorded, and so does leaving the `with` block, where
\* an Exception of the body counts as recorded.
C30_JoinCollectsResolveRaises ==
    [][/\ ((join \/ enter) /\ Catchable(stack.tasks)) =>
              /\ stack'.tasks = <<>>
              /\ stack'.ran = stack.ran \o stack.tasks
              /\ stack'.results = [i \in DOMAIN stack.tasks |-> Entry(stack.tasks[i])]
              /\ stack'.exceptions = stack.exceptions \o Failures(stack.tasks, 1)
              /\ stack'.raised = ""
       /\ resolve =>
              /\ stack'.raised = "ExceptionGroup" <=> stack.exceptions # <<>>
              /\ stack'.exceptions = stack.exceptions /\ stack'.tasks = stack.tasks
       /\ \A exc_val \in ExcVals : exit(exc_val) =>
              /\ stack'.raised = "ExceptionGroup" <=>
                     (stack.exceptions # <<>> \/ exc_val = "Exception")
              /\ stack'.raised = "ExceptionGroup" <=> stack'.exceptions # <<>>
              /\ exc_val = "Exception" =>
                     stack'.exceptions = Append(stack.exceptions, BodyException)]_vars

\* C30's case: the first and the third of three tasks raised, the second
\* returned between them, and leaving the block raised the group of their
\* exceptions and the body's.
C30_Witness ==
    /\ stack.called = "__exit__" /\ stack.raised = "ExceptionGroup"
    /\ Len(stack.ran) = 3 /\ stack.tasks = <<>>
    /\ stack.ran[1].does = "raises"
    /\ stack.ran[2].does = "returns" /\ stack.ran[3].does = "raises"
    /\ stack.exceptions = <<Noted(stack.ran[1], 0), Noted(stack.ran[3], 2), BodyException>>

\* The places in `open` of the open calls to a known log function, outermost
\* first.
OpenLogCalls ==
    SelectSeq([i \in DOMAIN open |-> i],
              LAMBDA i : open[i].kind = "Call" /\ open[i].name \in logfuncs)

RECURSIVE OpenRefs(_, _)
\* References to handled names among the arguments met so far of the open
\* nodes from..to.
OpenRefs(from, to) ==
    IF from > to THEN 0
    ELSE NameRefs(open[from].args, handled_exceptions) + OpenRefs(from + 1, to)

\* C31: while the traversal runs the counter stack holds one entry per open
\* call to a known log function, and the entry of a call counts the
\* handled-exception names met so far in its arguments outside nested calls
\* to a known log function; so a call to a known log function that has been
\* rewritten took the exception branch if and only if its own arguments,
\* outside nested log calls, hold such a name; and the stack is empty when
\* the traversal has ended.
C31_CounterPerOpenLogCall ==
    /\ pc = "running" =>
           /\ Len(excs_in_logfunc_call) = Len(OpenLogCalls)
           /\ \A j \in DOMAIN OpenLogCalls :
                  excs_in_logfunc_call[j] =
                      OpenRefs(OpenLogCalls[j],
                               IF j < Len(OpenLogCalls) THEN OpenLogCalls[j + 1] - 1
                               ELSE Len(open))
    /\ (LastIsLogCall /\ last.kind \in {"normal", "exception"}) =>
           (last.kind = "exception" <=> NameRefs(last.call.args, handled_exceptions) > 0)
    /\ pc = "done" => excs_in_logfunc_call = <<>>

\* C31's case: inside `except ... as e` a call to eprint whose first argument
\* is a call to eprint that names `e` was rewritten, and not to an exception
\* replacement; the inner call had been.
C31_Witness ==
    /\ pc = "running" /\ LastIsLogCall /\ last.kind = "normal"
    /\ "e" \in handled_exceptions
    /\ last.call.args[1].kind = "Call" /\ last.call.args[1].name \in logfuncs
    /\ NameRefs(last.call.args[1].args, handled_exceptions) > 0
    /\ excs_in_logfunc_call = <<>>

\* A call whose callee is an attribute, or a bare name outside the known set.
NotLogCall(node) == IsCallLike(node) /\ ~(node.kind = "Call" /\ node.name \in logfuncs)

\* C32: entering a call whose callee is not a bare name of the known set
\* pushes nothing and schedules no import; an argument met while such a call
\* is innermost neither pushes nor pops; and leaving it pops nothing,
\* schedules nothing, raises nothing and hands the call on as it was, to the
\* enclosing call as its next argument -- whatever the arguments are.
C32_OtherCallsUntouched ==
    [][/\ (Len(open') = Len(open) + 1 /\ NotLogCall(open'[Len(open')])) =>
              /\ excs_in_logfunc_call' = excs_in_logfunc_call
              /\ needed_imports' = needed_imports
       /\ (InCall /\ NotLogCall(Top)) =>
              /\ Len(excs_in_logfunc_call') = Len(excs_in_logfunc_call)
              /\ needed_imports' = needed_imports
              /\ postprocess' = postprocess /\ body' = body
              /\ pc' = "running"
              /\ last'.kind \in {"none", "unchanged"} /\ last'.out = NoOut
              /\ last'.warnings = <<>>
              /\ Len(open') < Len(open) =>
                     /\ open' = Left(Top)
                     /\ excs_in_logfunc_call' = excs_in_logfunc_call]_vars

\* C32's case: inside `except ... as e`, the call str(e)
\* was left as the first argument of a call to eprint.
C32_Witness ==
    /\ pc = "running" /\ Len(open) = 2 /\ Top.kind = "Call" /\ Top.name \in logfuncs
    /\ "e" \in handled_exceptions
    /\ Len(Top.args) = 1 /\ Top.args[1].kind = "Call" /\ Top.args[1].name = "str"
    /\ Top.args[1].args = <<NameNode("e")>>
    /\ last.kind = "unchanged" /\ last.call = Top.args[1]
    /\ excs_in_logfunc_call = <<1>>

\* The last call's first argument is <name>.format(a1, ..., an), n > 0, the
\* name in the string-variable registry, and the call classified and names
\* no handled exception: ensure_assigned_format_is_percent was called.
LastLookedUpScope ==
    /\ LastClassified
    /\ last.call.args[1].kind = "Format" /\ last.call.args[1].base = "Name"
    /\ last.call.args[1].name \in DOMAIN string_varnames
    /\ last.call.args[1].args # <<>>
    /\ NameRefs(last.call.args, handled_exceptions) = 0

\* C33: the scope lookup of ensure_assigned_format_is_percent ends, whichever
\* scope the call is in: it finds the assignment recorded for an enclosing
\* scope and schedules it, or it raises "Could not find scope of string
\* variable definition"; the transform never loops forever.
C33_ScopeLookupTerminates ==
    /\ pc # "hung"
    /\ LastLookedUpScope =>
           \/ last.kind = "normal" /\ postprocess # {}
           \/ last.kind = "raised" /\ last.error.msg = ScopeNotFound

\* C34: leaving a call to a known log function that classifies and names a
\* handled exception performs no conversion, no trial substitution and no
\* scheduling: nothing is raised, nothing is added to the assignments to
\* postprocess, and the call becomes <logger>.exception("Error in function:
\* <label>", exc_info=True), one positional argument and the keyword,
\* whatever its template and the arguments of its .format() are.
C34_ExceptionBranchSkipsConversion ==
    [][(/\ InCall /\ Top.kind = "Call" /\ Top.name \in logfuncs
        /\ get_logfunc_arguments(Top, CallPosition).error = NoError
        /\ NameRefs(Top.args, handled_exceptions) > 0
        /\ last'.kind # "none")
       => /\ last'.kind = "exception" /\ last'.error = NoError
          /\ pc' = "running"
          /\ postprocess' = postprocess
          /\ last'.converted = {}
          /\ last'.out = LoggerCall(logger_name, <<"exception">>,
                                    <<ErrorIn(IF EnclosingNames = <<>> THEN <<"Module">>
                                              ELSE JoinLocals(EnclosingNames))>>,
                                    TRUE)]_vars

\* C34's case: eprint("{}{}".format(a), "INFO", e) inside `except ... as e`
\* became the exception call, though one argument for two placeholders fails
\* the trial substitution of the normal branch.
C34_Witness ==
    /\ pc = "running" /\ last.kind = "exception"
    /\ Len(last.call.args) = 3
    /\ last.call.args[1].kind = "Format" /\ last.call.args[1].base = "Str"
    /\ last.call.args[1].lit = <<"{", "}", "{", "}">>
    /\ Len(last.call.args[1].args) = 1
    /\ PercentFormat(ReplaceBraces(last.call.args[1].lit), 1) = "TypeError"
    /\ last.call.args[3] = NameNode("e")

\* The literal bound to the named template of the last call.
LastNamedLiteral == string_varnames[LastTemplateName][CurrentScope].lit

\* C35: a call eprint(msg.format(a1, ..., an), LEVEL) without
\* handled-exception reference, `msg` a registered string variable of the
\* call's scope, is fatal (LogFuncReplaceException, no replacement, nothing
\* scheduled for it) when the literal bound to `msg` holds a field other than
\* the bare "{}" or a number of "{}" other than n.
C35_NamedTemplateValidated ==
    (/\ LastIsNamedTemplate
     /\ NameRefs(last.call.args, handled_exceptions) = 0
     /\ \/ HasRichField(LastNamedLiteral)
        \/ BracePairs(LastNamedLiteral) # Len(LastFormatArgs))
    => /\ last.kind = "raised"
       /\ last.error.type = "LogFuncReplaceException"
       /\ last.out = NoOut

\* The result `res` of leaving a call is a normal-branch rewrite whose first
\* argument is <name>.format(...).
TemplateUse(res) ==
    /\ res.kind = "normal"
    /\ res.call.args # <<>>
    /\ res.call.args[1].kind = "Format" /\ res.call.args[1].base = "Name"

\* The assignments recorded for `name`, in any scope.
AssignmentsOf(name) ==
    IF name \in DOMAIN string_varnames
    THEN {string_varnames[name][scope] : scope \in DOMAIN string_varnames[name]}
    ELSE {}

\* The step leaves the Module node.
ModuleExit == pc = "running" /\ open = <<>> /\ pc' \in {"done", "aborted"}

\* C36, as stated: an assignment is scheduled only by a normal-branch rewrite
\* of a call whose template is <name>.format(...), every such rewrite
\* schedules an assignment of that name, and leaving the Module node rewrites
\* every scheduled assignment, each exactly once, and nothing else.
C36_TemplatesConvertedOnce ==
    [][/\ postprocess' # postprocess =>
              /\ TemplateUse(last')
              /\ postprocess \subseteq postprocess'
              /\ postprocess' \ postprocess \subseteq AssignmentsOf(last'.call.args[1].name)
       /\ TemplateUse(last') =>
              AssignmentsOf(last'.call.args[1].name) \cap postprocess' # {}
       /\ ModuleExit =>
              /\ last'.kind = "module"
              /\ {pair[1] : pair \in last'.converted} = postprocess
              /\ \A node \in postprocess :
                     Cardinality({pair \in last'.converted : pair[1] = node}) = 1]_vars

LastIsUnknownTemplate ==
    /\ LastIsLogCall
    /\ last.call.args # <<>>
    /\ last.call.args[1].kind = "Format" /\ last.call.args[1].base = "Name"
    /\ last.call.args[1].name \notin DOMAIN string_varnames

\* C38: a call to a known log function whose message is <name>.format(...)
\* on an unrecorded name is rejected with the fatal LogFuncReplaceException:
\* it is not rewritten, and no other error ends the traversal.
C38_UnknownTemplateRejected ==
    LastIsUnknownTemplate =>
        /\ last.kind = "raised"
        /\ last.error.type = "LogFuncReplaceException"
        /\ last.out = NoOut

\* The last call names a handled exception and lacks a message candidate or
\* a level literal.
LastIsIncompleteWithException ==
    /\ LastIsLogCall
    /\ NameRefs(last.call.args, handled_exceptions) > 0
    /\ (Candidates(last.call.args) = {} \/ LevelCount(last.call.args) = 0)

\* C39, as stated: a call to a known log function that names a handled
\* exception and has no message candidate or no level literal raises
\* "Malformed logfunc call" and is not rewritten.
C39_IncompleteExceptionCallMalformed ==
    LastIsIncompleteWithException =>
        /\ last.kind = "raised"
        /\ last.error = raise_at_node(last.pos, MalformedCall)
        /\ last.out = NoOut

\* C39, amended: a call to a known log function that names a handled
\* exception, has at most one level literal and has no message candidate or
\* no level literal raises "Malformed logfunc call" at its position and is
\* not rewritten to the exception call: the classification comes first.
C39_ClassifiedBeforeBranch ==
    (LastIsIncompleteWithException /\ LevelCount(last.call.args) <= 1) =>
        /\ last.kind = "raised"
        /\ last.error = raise_at_node(last.pos, MalformedCall)
        /\ last.out = NoOut
        /\ pc = "aborted"

\* C39's case: eprint(e, "INFO") inside `except ... as e` was rejected as
\* malformed.
C39_Witness ==
    /\ LastIsIncompleteWithException
    /\ last.call.args = <<NameNode("e"), StrNode(DoubleQuote, INFO)>>
    /\ "e" \in LexicallyHandled
    /\ last.kind = "raised"
    /\ last.error.msg = MalformedCall

\* C40: when the traversal of a module is over, the declaration of the
\* logger is scheduled only if the import of logging is scheduled too; a
\* module without a call to a known log function gets neither.
C40_DeclarationNeedsImport ==
    pc = "done" =>
        (Copies(global_statements, LoggerDeclaration) > 0 => "logging" \in needed_imports)

=============================================================================
